---- MODULE Spec2Model ----
(***************************************************************************)
(* HCNC (Hikasami CSS Naming Convention) class-name classifier and         *)
(* validator, modelled from utils.ts.  Class names are TLA+ strings; the   *)
(* grammars are the source's regular expressions, kept as syntax trees and *)
(* run by a matcher that follows RegExp.prototype.test.                    *)
(***************************************************************************)
EXTENDS Integers, Sequences, FiniteSets, TLC

VARIABLES holds, className, classString, selector, scss, tree, call, ret, seen, biome

\* What the caller holds: a class name, a class string or a selector (holds
\* says which; the other two are empty).
inputs == <<holds, className, classString, selector, scss, tree>>

vars == <<inputs, call, ret, seen, biome>>

-----------------------------------------------------------------------------
(* Character classes of the regular expressions.                           *)

Lower == {"a", "b", "c", "d", "e", "f", "g", "h", "i", "j", "k", "l", "m",
          "n", "o", "p", "q", "r", "s", "t", "u", "v", "w", "x", "y", "z"}

Upper == {"A", "B", "C", "D", "E", "F", "G", "H", "I", "J", "K", "L", "M",
          "N", "O", "P", "Q", "R", "S", "T", "U", "V", "W", "X", "Y", "Z"}

Digit == {"0", "1", "2", "3", "4", "5", "6", "7", "8", "9"}

HexLower == {"a", "b", "c", "d", "e", "f"}

HexUpper == {"A", "B", "C", "D", "E", "F"}

\* \w
WordChar == Lower \cup Upper \cup Digit \cup {"_"}

\* Punctuation that occurs in class names and selectors.
Punct == {"-", "_", "[", "]", "#", "/", ".", "(", ")", ":", ",", "&", "{", "}"}

\* "." : any character but a line terminator.
AnyChar == Lower \cup Upper \cup Digit \cup Punct \cup {" ", "\t"}

-----------------------------------------------------------------------------
(* Regular expressions as syntax trees.                                    *)

Chr(cs) == [op |-> "chr", cs |-> cs]

Str(w) == [op |-> "str", w |-> w]

Cat(rs) == [op |-> "cat", rs |-> rs]

Alt(rs) == [op |-> "alt", rs |-> rs]

\* r{lo,hi}; r? is Rep(r, 0, 1)
Rep(r, lo, hi) == [op |-> "rep", r |-> r, lo |-> lo, bounded |-> TRUE, hi |-> hi]

\* r{lo,}; r* is Many(r, 0), r+ is Many(r, 1)
Many(r, lo) == [op |-> "rep", r |-> r, lo |-> lo, bounded |-> FALSE, hi |-> lo]

\* ^
Bol == [op |-> "bol"]

\* $
Eol == [op |-> "eol"]

RECURSIVE Ends(_, _, _)
RECURSIVE CatEnds(_, _, _, _)
RECURSIVE RepEnds(_, _, _, _)

\* The positions at which a match of re that starts at position i of s can end
\* (position Len(s) + 1 is the end of the input).
Ends(re, s, i) ==
  CASE re.op = "chr" ->
         IF i <= Len(s) /\ SubSeq(s, i, i) \in re.cs THEN {i + 1} ELSE {}
    [] re.op = "str" ->
         IF i + Len(re.w) <= Len(s) + 1 /\ SubSeq(s, i, i + Len(re.w) - 1) = re.w
         THEN {i + Len(re.w)} ELSE {}
    [] re.op = "bol" -> IF i = 1 THEN {i} ELSE {}
    [] re.op = "eol" -> IF i = Len(s) + 1 THEN {i} ELSE {}
    [] re.op = "alt" -> UNION {Ends(re.rs[k], s, i) : k \in DOMAIN re.rs}
    [] re.op = "cat" -> CatEnds(re.rs, 1, s, i)
    [] re.op = "rep" -> RepEnds(re, s, i, 0)

\* rs[k], rs[k+1], ... matched one after the other from position i.
CatEnds(rs, k, s, i) ==
  IF k > Len(rs) THEN {i}
  ELSE UNION {CatEnds(rs, k + 1, s, j) : j \in Ends(rs[k], s, i)}

\* The ends of the repetition from position i, n iterations of re.r being
\* done.  An iteration past the minimum that consumes nothing ends the
\* repetition.
RepEnds(re, s, i, n) ==
  LET here == IF n >= re.lo THEN {i} ELSE {}
  IN  IF re.bounded /\ n = re.hi THEN here
      ELSE here \cup UNION {RepEnds(re, s, j, n + 1) : j \in Ends(re.r, s, i) \ here}

\* The positions at which a match of re can start: any position, but only the
\* first one when re opens with ^.
Starts(re, s) ==
  IF re.op = "cat" /\ Len(re.rs) > 0 /\ re.rs[1].op = "bol" THEN {1}
  ELSE 1..(Len(s) + 1)

\* RegExp.prototype.test without flags: a match may start at any position.
Test(re, s) == \E i \in Starts(re, s) : Ends(re, s, i) # {}

-----------------------------------------------------------------------------
(* Regex Patterns                                                          *)

\* /^[a-z][a-z0-9]*(?:-[a-z0-9]+)*$/
BLOCK_PATTERN ==
  Cat(<<Bol, Chr(Lower), Many(Chr(Lower \cup Digit), 0), Many(Cat(<<Str("-"), Many(Chr(Lower \cup Digit), 1)>>), 0), Eol>>)

\* /^[a-z][a-z0-9]*(?:-[a-z0-9]+)*_[a-z][a-z0-9]*(?:-[a-z0-9]+)*$/
ELEMENT_PATTERN ==
  Cat(<<Bol, Chr(Lower), Many(Chr(Lower \cup Digit), 0), Many(Cat(<<Str("-"), Many(Chr(Lower \cup Digit), 1)>>), 0), Str("_"), Chr(Lower), Many(Chr(Lower \cup Digit), 0), Many(Cat(<<Str("-"), Many(Chr(Lower \cup Digit), 1)>>), 0), Eol>>)

\* /^[a-z][a-z0-9]*(?:-[a-z0-9]+)*_[a-z][a-z0-9]*(?:-[a-z0-9]+)*__[a-z][a-z0-9]*(?:-[a-z0-9]+)*$/
NESTED_ELEMENT_PATTERN ==
  Cat(<<Bol, Chr(Lower), Many(Chr(Lower \cup Digit), 0), Many(Cat(<<Str("-"), Many(Chr(Lower \cup Digit), 1)>>), 0), Str("_"), Chr(Lower), Many(Chr(Lower \cup Digit), 0), Many(Cat(<<Str("-"), Many(Chr(Lower \cup Digit), 1)>>), 0), Str("__"), Chr(Lower), Many(Chr(Lower \cup Digit), 0), Many(Cat(<<Str("-"), Many(Chr(Lower \cup Digit), 1)>>), 0), Eol>>)

\* /^[a-z][a-z0-9]*(?:-[a-z0-9]+)*(?:_[a-z][a-z0-9]*(?:-[a-z0-9]+)*)?(?:__[a-z][a-z0-9]*(?:-[a-z0-9]+)*)?--[a-z][a-z0-9]*(?:-[a-z0-9]+)*$/
MODIFIER_PATTERN ==
  Cat(<<Bol, Chr(Lower), Many(Chr(Lower \cup Digit), 0), Many(Cat(<<Str("-"), Many(Chr(Lower \cup Digit), 1)>>), 0), Rep(Cat(<<Str("_"), Chr(Lower), Many(Chr(Lower \cup Digit), 0), Many(Cat(<<Str("-"), Many(Chr(Lower \cup Digit), 1)>>), 0)>>), 0, 1), Rep(Cat(<<Str("__"), Chr(Lower), Many(Chr(Lower \cup Digit), 0), Many(Cat(<<Str("-"), Many(Chr(Lower \cup Digit), 1)>>), 0)>>), 0, 1), Str("--"), Chr(Lower), Many(Chr(Lower \cup Digit), 0), Many(Cat(<<Str("-"), Many(Chr(Lower \cup Digit), 1)>>), 0), Eol>>)

\* /^(is|has)[A-Z][a-zA-Z0-9]*$/
STATE_PATTERN ==
  Cat(<<Bol, Alt(<<Str("is"), Str("has")>>), Chr(Upper), Many(Chr(Lower \cup Upper \cup Digit), 0), Eol>>)

UTILITY_PATTERNS == <<
  \* Flexbox
  \* /^flex$/
  Cat(<<Bol, Str("flex"), Eol>>),
  \* /^inline-flex$/
  Cat(<<Bol, Str("inline-flex"), Eol>>),
  \* /^flex-(row|col|wrap|nowrap|1|auto|initial|none)$/
  Cat(<<Bol, Str("flex-"), Alt(<<Str("row"), Str("col"), Str("wrap"), Str("nowrap"), Str("1"), Str("auto"), Str("initial"), Str("none")>>), Eol>>),
  \* /^flex-(row|col)-reverse$/
  Cat(<<Bol, Str("flex-"), Alt(<<Str("row"), Str("col")>>), Str("-reverse"), Eol>>),
  \* /^items-(start|end|center|baseline|stretch)$/
  Cat(<<Bol, Str("items-"), Alt(<<Str("start"), Str("end"), Str("center"), Str("baseline"), Str("stretch")>>), Eol>>),
  \* /^justify-(start|end|center|between|around|evenly)$/
  Cat(<<Bol, Str("justify-"), Alt(<<Str("start"), Str("end"), Str("center"), Str("between"), Str("around"), Str("evenly")>>), Eol>>),
  \* /^self-(auto|start|end|center|stretch|baseline)$/
  Cat(<<Bol, Str("self-"), Alt(<<Str("auto"), Str("start"), Str("end"), Str("center"), Str("stretch"), Str("baseline")>>), Eol>>),
  \* /^grow(-0)?$/
  Cat(<<Bol, Str("grow"), Rep(Str("-0"), 0, 1), Eol>>),
  \* /^shrink(-0)?$/
  Cat(<<Bol, Str("shrink"), Rep(Str("-0"), 0, 1), Eol>>),
  \* /^order-\d+$/
  Cat(<<Bol, Str("order-"), Many(Chr(Digit), 1), Eol>>),
  \* Grid
  \* /^grid$/
  Cat(<<Bol, Str("grid"), Eol>>),
  \* /^inline-grid$/
  Cat(<<Bol, Str("inline-grid"), Eol>>),
  \* /^grid-cols-\d+$/
  Cat(<<Bol, Str("grid-cols-"), Many(Chr(Digit), 1), Eol>>),
  \* /^grid-rows-\d+$/
  Cat(<<Bol, Str("grid-rows-"), Many(Chr(Digit), 1), Eol>>),
  \* /^col-span-\d+$/
  Cat(<<Bol, Str("col-span-"), Many(Chr(Digit), 1), Eol>>),
  \* /^row-span-\d+$/
  Cat(<<Bol, Str("row-span-"), Many(Chr(Digit), 1), Eol>>),
  \* /^gap-\d+$/
  Cat(<<Bol, Str("gap-"), Many(Chr(Digit), 1), Eol>>),
  \* /^gap-x-\d+$/
  Cat(<<Bol, Str("gap-x-"), Many(Chr(Digit), 1), Eol>>),
  \* /^gap-y-\d+$/
  Cat(<<Bol, Str("gap-y-"), Many(Chr(Digit), 1), Eol>>),
  \* Spacing (margin, padding)
  \* /^[mp][trblxy]?-\d+(\.\d+)?$/
  Cat(<<Bol, Chr({"m", "p"}), Rep(Chr({"t", "r", "b", "l", "x", "y"}), 0, 1), Str("-"), Many(Chr(Digit), 1), Rep(Cat(<<Str("."), Many(Chr(Digit), 1)>>), 0, 1), Eol>>),
  \* /^-[mp][trblxy]?-\d+(\.\d+)?$/
  Cat(<<Bol, Str("-"), Chr({"m", "p"}), Rep(Chr({"t", "r", "b", "l", "x", "y"}), 0, 1), Str("-"), Many(Chr(Digit), 1), Rep(Cat(<<Str("."), Many(Chr(Digit), 1)>>), 0, 1), Eol>>),
  \* /^space-[xy]-\d+$/
  Cat(<<Bol, Str("space-"), Chr({"x", "y"}), Str("-"), Many(Chr(Digit), 1), Eol>>),
  \* /^-space-[xy]-\d+$/
  Cat(<<Bol, Str("-space-"), Chr({"x", "y"}), Str("-"), Many(Chr(Digit), 1), Eol>>),
  \* Sizing
  \* /^[wh]-(full|screen|auto|min|max|fit|\d+(\.\d+)?|(\d+\/\d+))$/
  Cat(<<Bol, Chr({"w", "h"}), Str("-"), Alt(<<Str("full"), Str("screen"), Str("auto"), Str("min"), Str("max"), Str("fit"), Cat(<<Many(Chr(Digit), 1), Rep(Cat(<<Str("."), Many(Chr(Digit), 1)>>), 0, 1)>>), Cat(<<Many(Chr(Digit), 1), Str("/"), Many(Chr(Digit), 1)>>)>>), Eol>>),
  \* /^min-[wh]-(full|screen|0|\d+(\.\d+)?)$/
  Cat(<<Bol, Str("min-"), Chr({"w", "h"}), Str("-"), Alt(<<Str("full"), Str("screen"), Str("0"), Cat(<<Many(Chr(Digit), 1), Rep(Cat(<<Str("."), Many(Chr(Digit), 1)>>), 0, 1)>>)>>), Eol>>),
  \* /^max-[wh]-(full|screen|none|\d+(\.\d+)?)$/
  Cat(<<Bol, Str("max-"), Chr({"w", "h"}), Str("-"), Alt(<<Str("full"), Str("screen"), Str("none"), Cat(<<Many(Chr(Digit), 1), Rep(Cat(<<Str("."), Many(Chr(Digit), 1)>>), 0, 1)>>)>>), Eol>>),
  \* /^size-\d+$/
  Cat(<<Bol, Str("size-"), Many(Chr(Digit), 1), Eol>>),
  \* Typography
  \* /^text-(xs|sm|base|lg|xl|2xl|3xl|4xl|5xl|6xl|7xl|8xl|9xl)$/
  Cat(<<Bol, Str("text-"), Alt(<<Str("xs"), Str("sm"), Str("base"), Str("lg"), Str("xl"), Str("2xl"), Str("3xl"), Str("4xl"), Str("5xl"), Str("6xl"), Str("7xl"), Str("8xl"), Str("9xl")>>), Eol>>),
  \* /^text-(left|center|right|justify|start|end)$/
  Cat(<<Bol, Str("text-"), Alt(<<Str("left"), Str("center"), Str("right"), Str("justify"), Str("start"), Str("end")>>), Eol>>),
  \* /^text-\[.+\]$/
  Cat(<<Bol, Str("text-["), Many(Chr(AnyChar), 1), Str("]"), Eol>>),
  \* /^font-(thin|extralight|light|normal|medium|semibold|bold|extrabold|black)$/
  Cat(<<Bol, Str("font-"), Alt(<<Str("thin"), Str("extralight"), Str("light"), Str("normal"), Str("medium"), Str("semibold"), Str("bold"), Str("extrabold"), Str("black")>>), Eol>>),
  \* /^font-(sans|serif|mono)$/
  Cat(<<Bol, Str("font-"), Alt(<<Str("sans"), Str("serif"), Str("mono")>>), Eol>>),
  \* /^leading-(none|tight|snug|normal|relaxed|loose|\d+)$/
  Cat(<<Bol, Str("leading-"), Alt(<<Str("none"), Str("tight"), Str("snug"), Str("normal"), Str("relaxed"), Str("loose"), Many(Chr(Digit), 1)>>), Eol>>),
  \* /^tracking-(tighter|tight|normal|wide|wider|widest)$/
  Cat(<<Bol, Str("tracking-"), Alt(<<Str("tighter"), Str("tight"), Str("normal"), Str("wide"), Str("wider"), Str("widest")>>), Eol>>),
  \* /^uppercase$/
  Cat(<<Bol, Str("uppercase"), Eol>>),
  \* /^lowercase$/
  Cat(<<Bol, Str("lowercase"), Eol>>),
  \* /^capitalize$/
  Cat(<<Bol, Str("capitalize"), Eol>>),
  \* /^normal-case$/
  Cat(<<Bol, Str("normal-case"), Eol>>),
  \* /^italic$/
  Cat(<<Bol, Str("italic"), Eol>>),
  \* /^not-italic$/
  Cat(<<Bol, Str("not-italic"), Eol>>),
  \* /^underline$/
  Cat(<<Bol, Str("underline"), Eol>>),
  \* /^overline$/
  Cat(<<Bol, Str("overline"), Eol>>),
  \* /^line-through$/
  Cat(<<Bol, Str("line-through"), Eol>>),
  \* /^no-underline$/
  Cat(<<Bol, Str("no-underline"), Eol>>),
  \* /^truncate$/
  Cat(<<Bol, Str("truncate"), Eol>>),
  \* /^whitespace-(normal|nowrap|pre|pre-line|pre-wrap|break-spaces)$/
  Cat(<<Bol, Str("whitespace-"), Alt(<<Str("normal"), Str("nowrap"), Str("pre"), Str("pre-line"), Str("pre-wrap"), Str("break-spaces")>>), Eol>>),
  \* /^break-(normal|words|all|keep)$/
  Cat(<<Bol, Str("break-"), Alt(<<Str("normal"), Str("words"), Str("all"), Str("keep")>>), Eol>>),
  \* Colors (simplified - matches common patterns)
  \* /^(text|bg|border|ring|shadow)-(transparent|current|inherit)$/
  Cat(<<Bol, Alt(<<Str("text"), Str("bg"), Str("border"), Str("ring"), Str("shadow")>>), Str("-"), Alt(<<Str("transparent"), Str("current"), Str("inherit")>>), Eol>>),
  \* /^(text|bg|border|ring)-(black|white)$/
  Cat(<<Bol, Alt(<<Str("text"), Str("bg"), Str("border"), Str("ring")>>), Str("-"), Alt(<<Str("black"), Str("white")>>), Eol>>),
  \* /^(text|bg|border|ring)-(slate|gray|zinc|neutral|stone|red|orange|amber|yellow|lime|green|emerald|teal|cyan|sky|blue|indigo|violet|purple|fuchsia|pink|rose)-\d{2,3}$/
  Cat(<<Bol, Alt(<<Str("text"), Str("bg"), Str("border"), Str("ring")>>), Str("-"), Alt(<<Str("slate"), Str("gray"), Str("zinc"), Str("neutral"), Str("stone"), Str("red"), Str("orange"), Str("amber"), Str("yellow"), Str("lime"), Str("green"), Str("emerald"), Str("teal"), Str("cyan"), Str("sky"), Str("blue"), Str("indigo"), Str("violet"), Str("purple"), Str("fuchsia"), Str("pink"), Str("rose")>>), Str("-"), Rep(Chr(Digit), 2, 3), Eol>>),
  \* /^(text|bg|border|ring)-\[#[0-9a-fA-F]{3,8}\]$/
  Cat(<<Bol, Alt(<<Str("text"), Str("bg"), Str("border"), Str("ring")>>), Str("-[#"), Rep(Chr(Digit \cup HexLower \cup HexUpper), 3, 8), Str("]"), Eol>>),
  \* /^(text|bg|border|ring)-\[rgb.+\]$/
  Cat(<<Bol, Alt(<<Str("text"), Str("bg"), Str("border"), Str("ring")>>), Str("-[rgb"), Many(Chr(AnyChar), 1), Str("]"), Eol>>),
  \* Backgrounds
  \* /^bg-(fixed|local|scroll)$/
  Cat(<<Bol, Str("bg-"), Alt(<<Str("fixed"), Str("local"), Str("scroll")>>), Eol>>),
  \* /^bg-(bottom|center|left|left-bottom|left-top|right|right-bottom|right-top|top)$/
  Cat(<<Bol, Str("bg-"), Alt(<<Str("bottom"), Str("center"), Str("left"), Str("left-bottom"), Str("left-top"), Str("right"), Str("right-bottom"), Str("right-top"), Str("top")>>), Eol>>),
  \* /^bg-(repeat|no-repeat|repeat-x|repeat-y|repeat-round|repeat-space)$/
  Cat(<<Bol, Str("bg-"), Alt(<<Str("repeat"), Str("no-repeat"), Str("repeat-x"), Str("repeat-y"), Str("repeat-round"), Str("repeat-space")>>), Eol>>),
  \* /^bg-(auto|cover|contain)$/
  Cat(<<Bol, Str("bg-"), Alt(<<Str("auto"), Str("cover"), Str("contain")>>), Eol>>),
  \* /^bg-gradient-to-(t|tr|r|br|b|bl|l|tl)$/
  Cat(<<Bol, Str("bg-gradient-to-"), Alt(<<Str("t"), Str("tr"), Str("r"), Str("br"), Str("b"), Str("bl"), Str("l"), Str("tl")>>), Eol>>),
  \* /^from-\w+(-\d+)?$/
  Cat(<<Bol, Str("from-"), Many(Chr(WordChar), 1), Rep(Cat(<<Str("-"), Many(Chr(Digit), 1)>>), 0, 1), Eol>>),
  \* /^via-\w+(-\d+)?$/
  Cat(<<Bol, Str("via-"), Many(Chr(WordChar), 1), Rep(Cat(<<Str("-"), Many(Chr(Digit), 1)>>), 0, 1), Eol>>),
  \* /^to-\w+(-\d+)?$/
  Cat(<<Bol, Str("to-"), Many(Chr(WordChar), 1), Rep(Cat(<<Str("-"), Many(Chr(Digit), 1)>>), 0, 1), Eol>>),
  \* Borders
  \* /^border(-[trblxy])?(-\d+)?$/
  Cat(<<Bol, Str("border"), Rep(Cat(<<Str("-"), Chr({"t", "r", "b", "l", "x", "y"})>>), 0, 1), Rep(Cat(<<Str("-"), Many(Chr(Digit), 1)>>), 0, 1), Eol>>),
  \* /^border-(solid|dashed|dotted|double|hidden|none)$/
  Cat(<<Bol, Str("border-"), Alt(<<Str("solid"), Str("dashed"), Str("dotted"), Str("double"), Str("hidden"), Str("none")>>), Eol>>),
  \* /^rounded(-[trblxy])?(-none|-sm|-md|-lg|-xl|-2xl|-3xl|-full)?$/
  Cat(<<Bol, Str("rounded"), Rep(Cat(<<Str("-"), Chr({"t", "r", "b", "l", "x", "y"})>>), 0, 1), Rep(Alt(<<Str("-none"), Str("-sm"), Str("-md"), Str("-lg"), Str("-xl"), Str("-2xl"), Str("-3xl"), Str("-full")>>), 0, 1), Eol>>),
  \* /^divide-[xy](-\d+)?$/
  Cat(<<Bol, Str("divide-"), Chr({"x", "y"}), Rep(Cat(<<Str("-"), Many(Chr(Digit), 1)>>), 0, 1), Eol>>),
  \* /^divide-(solid|dashed|dotted|double|none)$/
  Cat(<<Bol, Str("divide-"), Alt(<<Str("solid"), Str("dashed"), Str("dotted"), Str("double"), Str("none")>>), Eol>>),
  \* /^ring(-\d+)?$/
  Cat(<<Bol, Str("ring"), Rep(Cat(<<Str("-"), Many(Chr(Digit), 1)>>), 0, 1), Eol>>),
  \* /^ring-inset$/
  Cat(<<Bol, Str("ring-inset"), Eol>>),
  \* /^ring-offset-\d+$/
  Cat(<<Bol, Str("ring-offset-"), Many(Chr(Digit), 1), Eol>>),
  \* Effects
  \* /^shadow(-sm|-md|-lg|-xl|-2xl|-inner|-none)?$/
  Cat(<<Bol, Str("shadow"), Rep(Alt(<<Str("-sm"), Str("-md"), Str("-lg"), Str("-xl"), Str("-2xl"), Str("-inner"), Str("-none")>>), 0, 1), Eol>>),
  \* /^opacity-\d+$/
  Cat(<<Bol, Str("opacity-"), Many(Chr(Digit), 1), Eol>>),
  \* /^mix-blend-\w+$/
  Cat(<<Bol, Str("mix-blend-"), Many(Chr(WordChar), 1), Eol>>),
  \* /^bg-blend-\w+$/
  Cat(<<Bol, Str("bg-blend-"), Many(Chr(WordChar), 1), Eol>>),
  \* Filters
  \* /^blur(-sm|-md|-lg|-xl|-2xl|-3xl|-none)?$/
  Cat(<<Bol, Str("blur"), Rep(Alt(<<Str("-sm"), Str("-md"), Str("-lg"), Str("-xl"), Str("-2xl"), Str("-3xl"), Str("-none")>>), 0, 1), Eol>>),
  \* /^brightness-\d+$/
  Cat(<<Bol, Str("brightness-"), Many(Chr(Digit), 1), Eol>>),
  \* /^contrast-\d+$/
  Cat(<<Bol, Str("contrast-"), Many(Chr(Digit), 1), Eol>>),
  \* /^grayscale(-0)?$/
  Cat(<<Bol, Str("grayscale"), Rep(Str("-0"), 0, 1), Eol>>),
  \* /^hue-rotate-\d+$/
  Cat(<<Bol, Str("hue-rotate-"), Many(Chr(Digit), 1), Eol>>),
  \* /^-hue-rotate-\d+$/
  Cat(<<Bol, Str("-hue-rotate-"), Many(Chr(Digit), 1), Eol>>),
  \* /^invert(-0)?$/
  Cat(<<Bol, Str("invert"), Rep(Str("-0"), 0, 1), Eol>>),
  \* /^saturate-\d+$/
  Cat(<<Bol, Str("saturate-"), Many(Chr(Digit), 1), Eol>>),
  \* /^sepia(-0)?$/
  Cat(<<Bol, Str("sepia"), Rep(Str("-0"), 0, 1), Eol>>),
  \* /^drop-shadow(-sm|-md|-lg|-xl|-2xl|-none)?$/
  Cat(<<Bol, Str("drop-shadow"), Rep(Alt(<<Str("-sm"), Str("-md"), Str("-lg"), Str("-xl"), Str("-2xl"), Str("-none")>>), 0, 1), Eol>>),
  \* /^backdrop-blur(-sm|-md|-lg|-xl|-2xl|-3xl|-none)?$/
  Cat(<<Bol, Str("backdrop-blur"), Rep(Alt(<<Str("-sm"), Str("-md"), Str("-lg"), Str("-xl"), Str("-2xl"), Str("-3xl"), Str("-none")>>), 0, 1), Eol>>),
  \* Layout
  \* /^block$/
  Cat(<<Bol, Str("block"), Eol>>),
  \* /^inline-block$/
  Cat(<<Bol, Str("inline-block"), Eol>>),
  \* /^inline$/
  Cat(<<Bol, Str("inline"), Eol>>),
  \* /^hidden$/
  Cat(<<Bol, Str("hidden"), Eol>>),
  \* /^contents$/
  Cat(<<Bol, Str("contents"), Eol>>),
  \* /^flow-root$/
  Cat(<<Bol, Str("flow-root"), Eol>>),
  \* /^list-item$/
  Cat(<<Bol, Str("list-item"), Eol>>),
  \* /^list-(none|disc|decimal)$/
  Cat(<<Bol, Str("list-"), Alt(<<Str("none"), Str("disc"), Str("decimal")>>), Eol>>),
  \* /^float-(left|right|none)$/
  Cat(<<Bol, Str("float-"), Alt(<<Str("left"), Str("right"), Str("none")>>), Eol>>),
  \* /^clear-(left|right|both|none)$/
  Cat(<<Bol, Str("clear-"), Alt(<<Str("left"), Str("right"), Str("both"), Str("none")>>), Eol>>),
  \* /^object-(contain|cover|fill|none|scale-down)$/
  Cat(<<Bol, Str("object-"), Alt(<<Str("contain"), Str("cover"), Str("fill"), Str("none"), Str("scale-down")>>), Eol>>),
  \* /^object-(bottom|center|left|left-bottom|left-top|right|right-bottom|right-top|top)$/
  Cat(<<Bol, Str("object-"), Alt(<<Str("bottom"), Str("center"), Str("left"), Str("left-bottom"), Str("left-top"), Str("right"), Str("right-bottom"), Str("right-top"), Str("top")>>), Eol>>),
  \* /^overflow(-[xy])?-(auto|hidden|clip|visible|scroll)$/
  Cat(<<Bol, Str("overflow"), Rep(Cat(<<Str("-"), Chr({"x", "y"})>>), 0, 1), Str("-"), Alt(<<Str("auto"), Str("hidden"), Str("clip"), Str("visible"), Str("scroll")>>), Eol>>),
  \* /^overscroll(-[xy])?-(auto|contain|none)$/
  Cat(<<Bol, Str("overscroll"), Rep(Cat(<<Str("-"), Chr({"x", "y"})>>), 0, 1), Str("-"), Alt(<<Str("auto"), Str("contain"), Str("none")>>), Eol>>),
  \* Positioning
  \* /^(static|fixed|absolute|relative|sticky)$/
  Cat(<<Bol, Alt(<<Str("static"), Str("fixed"), Str("absolute"), Str("relative"), Str("sticky")>>), Eol>>),
  \* /^(top|right|bottom|left|inset)(-[xy])?-\d+(\.\d+)?$/
  Cat(<<Bol, Alt(<<Str("top"), Str("right"), Str("bottom"), Str("left"), Str("inset")>>), Rep(Cat(<<Str("-"), Chr({"x", "y"})>>), 0, 1), Str("-"), Many(Chr(Digit), 1), Rep(Cat(<<Str("."), Many(Chr(Digit), 1)>>), 0, 1), Eol>>),
  \* /^-(top|right|bottom|left|inset)(-[xy])?-\d+(\.\d+)?$/
  Cat(<<Bol, Str("-"), Alt(<<Str("top"), Str("right"), Str("bottom"), Str("left"), Str("inset")>>), Rep(Cat(<<Str("-"), Chr({"x", "y"})>>), 0, 1), Str("-"), Many(Chr(Digit), 1), Rep(Cat(<<Str("."), Many(Chr(Digit), 1)>>), 0, 1), Eol>>),
  \* /^(top|right|bottom|left|inset)(-[xy])?-(auto|full|1\/2)$/
  Cat(<<Bol, Alt(<<Str("top"), Str("right"), Str("bottom"), Str("left"), Str("inset")>>), Rep(Cat(<<Str("-"), Chr({"x", "y"})>>), 0, 1), Str("-"), Alt(<<Str("auto"), Str("full"), Str("1/2")>>), Eol>>),
  \* /^z-\d+$/
  Cat(<<Bol, Str("z-"), Many(Chr(Digit), 1), Eol>>),
  \* /^z-(auto)$/
  Cat(<<Bol, Str("z-"), Str("auto"), Eol>>),
  \* /^-z-\d+$/
  Cat(<<Bol, Str("-z-"), Many(Chr(Digit), 1), Eol>>),
  \* Transforms
  \* /^scale(-[xy])?-\d+$/
  Cat(<<Bol, Str("scale"), Rep(Cat(<<Str("-"), Chr({"x", "y"})>>), 0, 1), Str("-"), Many(Chr(Digit), 1), Eol>>),
  \* /^rotate-\d+$/
  Cat(<<Bol, Str("rotate-"), Many(Chr(Digit), 1), Eol>>),
  \* /^-rotate-\d+$/
  Cat(<<Bol, Str("-rotate-"), Many(Chr(Digit), 1), Eol>>),
  \* /^translate-[xy]-\d+(\.\d+)?$/
  Cat(<<Bol, Str("translate-"), Chr({"x", "y"}), Str("-"), Many(Chr(Digit), 1), Rep(Cat(<<Str("."), Many(Chr(Digit), 1)>>), 0, 1), Eol>>),
  \* /^-translate-[xy]-\d+(\.\d+)?$/
  Cat(<<Bol, Str("-translate-"), Chr({"x", "y"}), Str("-"), Many(Chr(Digit), 1), Rep(Cat(<<Str("."), Many(Chr(Digit), 1)>>), 0, 1), Eol>>),
  \* /^skew-[xy]-\d+$/
  Cat(<<Bol, Str("skew-"), Chr({"x", "y"}), Str("-"), Many(Chr(Digit), 1), Eol>>),
  \* /^-skew-[xy]-\d+$/
  Cat(<<Bol, Str("-skew-"), Chr({"x", "y"}), Str("-"), Many(Chr(Digit), 1), Eol>>),
  \* /^origin-(center|top|top-right|right|bottom-right|bottom|bottom-left|left|top-left)$/
  Cat(<<Bol, Str("origin-"), Alt(<<Str("center"), Str("top"), Str("top-right"), Str("right"), Str("bottom-right"), Str("bottom"), Str("bottom-left"), Str("left"), Str("top-left")>>), Eol>>),
  \* /^transform$/
  Cat(<<Bol, Str("transform"), Eol>>),
  \* /^transform-none$/
  Cat(<<Bol, Str("transform-none"), Eol>>),
  \* /^transform-gpu$/
  Cat(<<Bol, Str("transform-gpu"), Eol>>),
  \* Transitions & Animation
  \* /^transition(-all|-colors|-opacity|-shadow|-transform|-none)?$/
  Cat(<<Bol, Str("transition"), Rep(Alt(<<Str("-all"), Str("-colors"), Str("-opacity"), Str("-shadow"), Str("-transform"), Str("-none")>>), 0, 1), Eol>>),
  \* /^duration-\d+$/
  Cat(<<Bol, Str("duration-"), Many(Chr(Digit), 1), Eol>>),
  \* /^ease-(linear|in|out|in-out)$/
  Cat(<<Bol, Str("ease-"), Alt(<<Str("linear"), Str("in"), Str("out"), Str("in-out")>>), Eol>>),
  \* /^delay-\d+$/
  Cat(<<Bol, Str("delay-"), Many(Chr(Digit), 1), Eol>>),
  \* /^animate-(none|spin|ping|pulse|bounce)$/
  Cat(<<Bol, Str("animate-"), Alt(<<Str("none"), Str("spin"), Str("ping"), Str("pulse"), Str("bounce")>>), Eol>>),
  \* Interactivity
  \* /^cursor-(auto|default|pointer|wait|text|move|help|not-allowed|none|context-menu|progress|cell|crosshair|vertical-text|alias|copy|no-drop|grab|grabbing|all-scroll|col-resize|row-resize|n-resize|e-resize|s-resize|w-resize|ne-resize|nw-resize|se-resize|sw-resize|ew-resize|ns-resize|nesw-resize|nwse-resize|zoom-in|zoom-out)$/
  Cat(<<Bol, Str("cursor-"), Alt(<<Str("auto"), Str("default"), Str("pointer"), Str("wait"), Str("text"), Str("move"), Str("help"), Str("not-allowed"), Str("none"), Str("context-menu"), Str("progress"), Str("cell"), Str("crosshair"), Str("vertical-text"), Str("alias"), Str("copy"), Str("no-drop"), Str("grab"), Str("grabbing"), Str("all-scroll"), Str("col-resize"), Str("row-resize"), Str("n-resize"), Str("e-resize"), Str("s-resize"), Str("w-resize"), Str("ne-resize"), Str("nw-resize"), Str("se-resize"), Str("sw-resize"), Str("ew-resize"), Str("ns-resize"), Str("nesw-resize"), Str("nwse-resize"), Str("zoom-in"), Str("zoom-out")>>), Eol>>),
  \* /^resize(-none|-x|-y)?$/
  Cat(<<Bol, Str("resize"), Rep(Alt(<<Str("-none"), Str("-x"), Str("-y")>>), 0, 1), Eol>>),
  \* /^select-(none|text|all|auto)$/
  Cat(<<Bol, Str("select-"), Alt(<<Str("none"), Str("text"), Str("all"), Str("auto")>>), Eol>>),
  \* /^pointer-events-(none|auto)$/
  Cat(<<Bol, Str("pointer-events-"), Alt(<<Str("none"), Str("auto")>>), Eol>>),
  \* /^touch-(auto|none|pan-x|pan-left|pan-right|pan-y|pan-up|pan-down|pinch-zoom|manipulation)$/
  Cat(<<Bol, Str("touch-"), Alt(<<Str("auto"), Str("none"), Str("pan-x"), Str("pan-left"), Str("pan-right"), Str("pan-y"), Str("pan-up"), Str("pan-down"), Str("pinch-zoom"), Str("manipulation")>>), Eol>>),
  \* /^scroll-(auto|smooth)$/
  Cat(<<Bol, Str("scroll-"), Alt(<<Str("auto"), Str("smooth")>>), Eol>>),
  \* /^scroll-[mp][trblxy]?-\d+$/
  Cat(<<Bol, Str("scroll-"), Chr({"m", "p"}), Rep(Chr({"t", "r", "b", "l", "x", "y"}), 0, 1), Str("-"), Many(Chr(Digit), 1), Eol>>),
  \* /^snap-(start|end|center|align-none)$/
  Cat(<<Bol, Str("snap-"), Alt(<<Str("start"), Str("end"), Str("center"), Str("align-none")>>), Eol>>),
  \* /^snap-(normal|always)$/
  Cat(<<Bol, Str("snap-"), Alt(<<Str("normal"), Str("always")>>), Eol>>),
  \* /^snap-(none|x|y|both|mandatory|proximity)$/
  Cat(<<Bol, Str("snap-"), Alt(<<Str("none"), Str("x"), Str("y"), Str("both"), Str("mandatory"), Str("proximity")>>), Eol>>),
  \* /^appearance-none$/
  Cat(<<Bol, Str("appearance-none"), Eol>>),
  \* /^outline(-none|-dashed|-dotted|-double)?$/
  Cat(<<Bol, Str("outline"), Rep(Alt(<<Str("-none"), Str("-dashed"), Str("-dotted"), Str("-double")>>), 0, 1), Eol>>),
  \* /^outline-\d+$/
  Cat(<<Bol, Str("outline-"), Many(Chr(Digit), 1), Eol>>),
  \* /^outline-offset-\d+$/
  Cat(<<Bol, Str("outline-offset-"), Many(Chr(Digit), 1), Eol>>),
  \* /^accent-\w+(-\d+)?$/
  Cat(<<Bol, Str("accent-"), Many(Chr(WordChar), 1), Rep(Cat(<<Str("-"), Many(Chr(Digit), 1)>>), 0, 1), Eol>>),
  \* /^caret-\w+(-\d+)?$/
  Cat(<<Bol, Str("caret-"), Many(Chr(WordChar), 1), Rep(Cat(<<Str("-"), Many(Chr(Digit), 1)>>), 0, 1), Eol>>),
  \* /^will-change-(auto|scroll|contents|transform)$/
  Cat(<<Bol, Str("will-change-"), Alt(<<Str("auto"), Str("scroll"), Str("contents"), Str("transform")>>), Eol>>),
  \* Accessibility
  \* /^sr-only$/
  Cat(<<Bol, Str("sr-only"), Eol>>),
  \* /^not-sr-only$/
  Cat(<<Bol, Str("not-sr-only"), Eol>>),
  \* /^forced-color-adjust-(auto|none)$/
  Cat(<<Bol, Str("forced-color-adjust-"), Alt(<<Str("auto"), Str("none")>>), Eol>>),
  \* Tables
  \* /^table(-auto|-fixed)?$/
  Cat(<<Bol, Str("table"), Rep(Alt(<<Str("-auto"), Str("-fixed")>>), 0, 1), Eol>>),
  \* /^table-(caption|cell|column|column-group|footer-group|header-group|row-group|row)$/
  Cat(<<Bol, Str("table-"), Alt(<<Str("caption"), Str("cell"), Str("column"), Str("column-group"), Str("footer-group"), Str("header-group"), Str("row-group"), Str("row")>>), Eol>>),
  \* /^border-(collapse|separate)$/
  Cat(<<Bol, Str("border-"), Alt(<<Str("collapse"), Str("separate")>>), Eol>>),
  \* /^border-spacing(-[xy])?-\d+$/
  Cat(<<Bol, Str("border-spacing"), Rep(Cat(<<Str("-"), Chr({"x", "y"})>>), 0, 1), Str("-"), Many(Chr(Digit), 1), Eol>>),
  \* /^caption-(top|bottom)$/
  Cat(<<Bol, Str("caption-"), Alt(<<Str("top"), Str("bottom")>>), Eol>>),
  \* SVG
  \* /^fill-(none|inherit|current|\w+(-\d+)?)$/
  Cat(<<Bol, Str("fill-"), Alt(<<Str("none"), Str("inherit"), Str("current"), Cat(<<Many(Chr(WordChar), 1), Rep(Cat(<<Str("-"), Many(Chr(Digit), 1)>>), 0, 1)>>)>>), Eol>>),
  \* /^stroke-(none|inherit|current|\w+(-\d+)?)$/
  Cat(<<Bol, Str("stroke-"), Alt(<<Str("none"), Str("inherit"), Str("current"), Cat(<<Many(Chr(WordChar), 1), Rep(Cat(<<Str("-"), Many(Chr(Digit), 1)>>), 0, 1)>>)>>), Eol>>),
  \* /^stroke-\d+$/
  Cat(<<Bol, Str("stroke-"), Many(Chr(Digit), 1), Eol>>),
  \* Aspect ratio
  \* /^aspect-(auto|square|video)$/
  Cat(<<Bol, Str("aspect-"), Alt(<<Str("auto"), Str("square"), Str("video")>>), Eol>>),
  \* /^aspect-\[\d+\/\d+\]$/
  Cat(<<Bol, Str("aspect-["), Many(Chr(Digit), 1), Str("/"), Many(Chr(Digit), 1), Str("]"), Eol>>),
  \* Columns
  \* /^columns-\d+$/
  Cat(<<Bol, Str("columns-"), Many(Chr(Digit), 1), Eol>>),
  \* /^columns-(auto|3xs|2xs|xs|sm|md|lg|xl|2xl|3xl|4xl|5xl|6xl|7xl)$/
  Cat(<<Bol, Str("columns-"), Alt(<<Str("auto"), Str("3xs"), Str("2xs"), Str("xs"), Str("sm"), Str("md"), Str("lg"), Str("xl"), Str("2xl"), Str("3xl"), Str("4xl"), Str("5xl"), Str("6xl"), Str("7xl")>>), Eol>>),
  \* /^break-(before|after|inside)-(auto|avoid|all|avoid-page|page|left|right|column)$/
  Cat(<<Bol, Str("break-"), Alt(<<Str("before"), Str("after"), Str("inside")>>), Str("-"), Alt(<<Str("auto"), Str("avoid"), Str("all"), Str("avoid-page"), Str("page"), Str("left"), Str("right"), Str("column")>>), Eol>>),
  \* Box decoration
  \* /^box-(border|content)$/
  Cat(<<Bol, Str("box-"), Alt(<<Str("border"), Str("content")>>), Eol>>),
  \* /^decoration-(clone|slice)$/
  Cat(<<Bol, Str("decoration-"), Alt(<<Str("clone"), Str("slice")>>), Eol>>),
  \* /^isolation-(auto|isolate)$/
  Cat(<<Bol, Str("isolation-"), Alt(<<Str("auto"), Str("isolate")>>), Eol>>),
  \* Container
  \* /^container$/
  Cat(<<Bol, Str("container"), Eol>>),
  \* /^mx-auto$/
  Cat(<<Bol, Str("mx-auto"), Eol>>),
  \* Visibility
  \* /^visible$/
  Cat(<<Bol, Str("visible"), Eol>>),
  \* /^invisible$/
  Cat(<<Bol, Str("invisible"), Eol>>),
  \* /^collapse$/
  Cat(<<Bol, Str("collapse"), Eol>>)
>>

-----------------------------------------------------------------------------
(* Values of the program.                                                  *)

\* null, the "no kind" result.
NULL == "null"

\* A call that returned: a boolean, a class type (or null), a
\* ValidationResult, a compiled pattern.
ReturnBool(b) == [threw |-> FALSE, bool |-> b]

ReturnType(t) == [threw |-> FALSE, type |-> t]

ReturnResult(r) == [threw |-> FALSE, result |-> r]

ReturnRegExp(re) == [threw |-> FALSE, regexp |-> re]

\* A call that returned a list: of class names, of ValidationResults, of
\* { className, result } pairs.
ReturnNames(l) == [threw |-> FALSE, names |-> l]

ReturnResults(l) == [threw |-> FALSE, results |-> l]

ReturnInvalid(l) == [threw |-> FALSE, invalid |-> l]

\* A call that raised e.

Throw(e) == [threw |-> TRUE, error |-> e]

\* HcncClassType
HcncClassType == {"block", "element", "nested-element", "modifier", "state", "utility"}

\* An HcncConfig; an absent field reads as its falsy value.
HcncConfig(customUtilities, allowUnknown, strictBem) ==
  [customUtilities |-> customUtilities, allowUnknown |-> allowUnknown,
   strictBem |-> strictBem]

\* A call made without a config.
NoConfig == HcncConfig(<<>>, FALSE, FALSE)

-----------------------------------------------------------------------------
(* String methods used by the validation functions.                        *)

\* String.prototype.includes
Includes(s, sub) ==
  \E i \in 1..(Len(s) - Len(sub) + 1) : SubSeq(s, i, i + Len(sub) - 1) = sub

\* String.prototype.startsWith
StartsWith(s, pre) == Len(pre) <= Len(s) /\ SubSeq(s, 1, Len(pre)) = pre

\* String.prototype.slice(n) for 0 <= n
Slice(s, n) == IF n >= Len(s) THEN "" ELSE SubSeq(s, n + 1, Len(s))

\* String.prototype.charAt(0)
CharAt0(s) == SubSeq(s, 1, 1)

LowerLetters == "abcdefghijklmnopqrstuvwxyz"

UpperLetters == "ABCDEFGHIJKLMNOPQRSTUVWXYZ"

\* String.prototype.toUpperCase of a string of at most one character
ToUpperCase(c) ==
  IF c \in Lower
  THEN LET k == CHOOSE j \in 1..Len(LowerLetters) : SubSeq(LowerLetters, j, j) = c
       IN  SubSeq(UpperLetters, k, k)
  ELSE c

\* String.prototype.replace(pat, by) with a string pattern: the first
\* occurrence only.
Replace(s, pat, by) ==
  IF ~Includes(s, pat) THEN s
  ELSE LET at == CHOOSE i \in 1..(Len(s) - Len(pat) + 1) :
                   /\ SubSeq(s, i, i + Len(pat) - 1) = pat
                   /\ \A j \in 1..(i - 1) : SubSeq(s, j, j + Len(pat) - 1) # pat
       IN  SubSeq(s, 1, at - 1) \o by \o SubSeq(s, at + Len(pat), Len(s))

RECURSIVE Join(_, _)
\* Array.prototype.join
Join(strs, sep) ==
  IF Len(strs) = 0 THEN ""
  ELSE IF Len(strs) = 1 THEN strs[1]
  ELSE strs[1] \o sep \o Join(Tail(strs), sep)

-----------------------------------------------------------------------------
(* new RegExp(source): the pattern syntax the custom utility sources use   *)
(* (characters, ^ $ . | ( ) and the quantifiers * + ?).                    *)

\* The character of src at position i, "" past the end.
At(src, i) == IF i <= Len(src) THEN SubSeq(src, i, i) ELSE ""

\* A parse that stopped before position pos, and a parse that failed.
Parsed(re, pos) == [threw |-> FALSE, re |-> re, pos |-> pos]

SyntaxError == [threw |-> TRUE, error |-> "SyntaxError"]

\* The quantifier, if any, that follows an atom ending before position pos.
Quantified(src, atom, pos) ==
  LET q == At(src, pos)
      lazy == IF At(src, pos + 1) = "?" THEN 1 ELSE 0
  IN  CASE q = "*" -> Parsed(Many(atom, 0), pos + 1 + lazy)
        [] q = "+" -> Parsed(Many(atom, 1), pos + 1 + lazy)
        [] q = "?" -> Parsed(Rep(atom, 0, 1), pos + 1 + lazy)
        [] OTHER -> Parsed(atom, pos)

RECURSIVE ParseDisjunction(_, _)
RECURSIVE ParseAlternative(_, _, _)

\* Alternative | Alternative | ...
ParseDisjunction(src, i) ==
  LET first == ParseAlternative(src, i, <<>>)
  IN  IF first.threw \/ At(src, first.pos) # "|" THEN first
      ELSE LET rest == ParseDisjunction(src, first.pos + 1)
           IN  IF rest.threw THEN rest
               ELSE Parsed(Alt(<<first.re, rest.re>>), rest.pos)

\* The terms from position i up to the next | or ) or the end; terms holds
\* the terms parsed so far.
ParseAlternative(src, i, terms) ==
  LET c == At(src, i)
  IN  CASE c \in {"", "|", ")"} -> Parsed(Cat(terms), i)
        [] c \in {"*", "+", "?"} -> SyntaxError          \* nothing to repeat
        [] c = "^" -> ParseAlternative(src, i + 1, Append(terms, Bol))
        [] c = "$" -> ParseAlternative(src, i + 1, Append(terms, Eol))
        [] c = "(" ->
             LET group == ParseDisjunction(src, i + 1)
             IN  IF group.threw THEN group
                 ELSE IF At(src, group.pos) # ")" THEN SyntaxError  \* unterminated group
                 ELSE LET term == Quantified(src, group.re, group.pos + 1)
                      IN  ParseAlternative(src, term.pos, Append(terms, term.re))
        [] OTHER ->
             LET atom == IF c = "." THEN Chr(AnyChar) ELSE Str(c)
                 term == Quantified(src, atom, i + 1)
             IN  ParseAlternative(src, term.pos, Append(terms, term.re))

\* Compiles to the tree of the pattern, or raises SyntaxError.
NewRegExp(source) ==
  LET pattern == ParseDisjunction(source, 1)
  IN  IF pattern.threw THEN Throw("SyntaxError")
      ELSE IF pattern.pos <= Len(source) THEN Throw("SyntaxError")  \* unmatched )
      ELSE ReturnRegExp(pattern.re)

-----------------------------------------------------------------------------
(* The class names the callers hold.                                       *)

\* The longest class name, in pieces after its opening word.
MaxTails == 2

\* The longest customUtilities list.
MaxCustom == 2

\* How a class name opens: a word, a state prefix, an uppercase letter.
Words == {"card", "to", "is", "has", "A"}

\* How it goes on: an uppercase letter, or a separator of one, two or three
\* characters, bare or followed by a segment.
Tails == {"A", "-", "-2", "--x", "_a", "__b", "___c"}

RECURSIVE TailRuns(_)
\* The concatenations of at most n tails.
TailRuns(n) ==
  IF n = 0 THEN {""}
  ELSE LET shorter == TailRuns(n - 1)
       IN  shorter \cup {r \o t : r \in shorter, t \in Tails}

ClassNames == {w \o r : w \in Words \cup {""}, r \in TailRuns(MaxTails)}

-----------------------------------------------------------------------------
(* Validation Functions                                                    *)

isBlock(cn) == Test(BLOCK_PATTERN, cn)

\* isElement with a pattern that lacks the closing $.
isElement_NoEnd(cn) ==
  Test(Cat(SubSeq(ELEMENT_PATTERN.rs, 1, Len(ELEMENT_PATTERN.rs) - 1)), cn)

isElement(cn) == Test(ELEMENT_PATTERN, cn)

isNestedElement(cn) == Test(NESTED_ELEMENT_PATTERN, cn)

isModifier(cn) == Test(MODIFIER_PATTERN, cn)

\* isStateClass with a pattern that lacks the closing $.
isStateClass_NoEnd(cn) ==
  Test(Cat(<<Bol, Alt(<<Str("is"), Str("has")>>), Chr(Upper),
             Many(Chr(Lower \cup Upper \cup Digit), 0)>>), cn)

isStateClass(cn) == Test(STATE_PATTERN, cn)

\* The loop over the built-in patterns.  Its outcome is tabulated once for
\* the class names the callers hold.
SomeBuiltinMatches(cn) ==
  \E k \in DOMAIN UTILITY_PATTERNS : Test(UTILITY_PATTERNS[k], cn)

BuiltinTable == {cn \in ClassNames : SomeBuiltinMatches(cn)}

MatchesBuiltinUtility(cn) ==
  IF cn \in ClassNames THEN cn \in BuiltinTable ELSE SomeBuiltinMatches(cn)

RECURSIVE MatchesCustomUtility(_, _, _)
RECURSIVE TestCustomUtility(_, _, _, _)

\* The loop over the custom patterns, from the k-th on: each source is
\* compiled when the loop reaches it.
MatchesCustomUtility(cn, customPatterns, k) ==
  IF k > Len(customPatterns) THEN ReturnBool(FALSE)
  ELSE TestCustomUtility(cn, customPatterns, k, NewRegExp(customPatterns[k]))

\* The body of the loop for the k-th source, pattern being what compiling it
\* returned or raised.
TestCustomUtility(cn, customPatterns, k, pattern) ==
  IF pattern.threw THEN pattern
  ELSE IF Test(pattern.regexp, cn) THEN ReturnBool(TRUE)
  ELSE MatchesCustomUtility(cn, customPatterns, k + 1)

\* isUtilityClass that looks at the custom patterns only until the caller has
\* kept the outcome of a call.
isUtilityClass_CustomOnce(cn, customPatterns) ==
  IF MatchesBuiltinUtility(cn) THEN ReturnBool(TRUE)
  ELSE IF seen.call.fn # "idle" THEN ReturnBool(FALSE)
  ELSE MatchesCustomUtility(cn, customPatterns, 1)

isUtilityClass(cn, customPatterns) ==
  IF MatchesBuiltinUtility(cn) THEN ReturnBool(TRUE)
  ELSE MatchesCustomUtility(cn, customPatterns, 1)

isHcncClass(cn) ==
  IF isUtilityClass(cn, <<>>).bool THEN FALSE
  ELSE isBlock(cn) \/ isElement(cn) \/ isNestedElement(cn) \/ isModifier(cn)

\* UtilityOrBlock with the block check moved before the utility check.
UtilityOrBlock_BlockBeforeUtility(cn, config, isUtility) ==
  IF isBlock(cn) THEN ReturnType("block")
  ELSE IF isUtility.threw THEN isUtility
  ELSE IF isUtility.bool
       THEN IF config.strictBem THEN ReturnType(NULL) ELSE ReturnType("utility")
  ELSE ReturnType(NULL)

\* UtilityOrBlock with a utility in strict mode handed on to the block check.
UtilityOrBlock_StrictFallsBackToBlock(cn, config, isUtility) ==
  IF isUtility.threw THEN isUtility
  ELSE IF isUtility.bool /\ ~config.strictBem THEN ReturnType("utility")
  ELSE IF isBlock(cn) THEN ReturnType("block")
  ELSE ReturnType(NULL)

\* getClassType after the call of isUtilityClass, isUtility being what the
\* call returned or raised.
UtilityOrBlock(cn, config, isUtility) ==
  IF isUtility.threw THEN isUtility
  ELSE IF isUtility.bool
       THEN IF config.strictBem THEN ReturnType(NULL) ELSE ReturnType("utility")
  ELSE IF isBlock(cn) THEN ReturnType("block")
  ELSE ReturnType(NULL)

getClassType(cn, config) ==
  IF isStateClass(cn) THEN ReturnType("state")
  ELSE IF isModifier(cn) THEN ReturnType("modifier")
  ELSE IF isNestedElement(cn) THEN ReturnType("nested-element")
  ELSE IF isElement(cn) THEN ReturnType("element")
  ELSE UtilityOrBlock(cn, config, isUtilityClass(cn, config.customUtilities))

\* The suggestions of validateClassName, in the order they are pushed.
Suggestions(cn) ==
  (IF Includes(cn, "__") /\ ~Includes(cn, "_")
   THEN <<"Use single underscore for first-level elements: \""
            \o Replace(cn, "__", "_") \o "\"">>
   ELSE <<>>)
  \o
  (IF StartsWith(cn, "is") /\ ~Test(Cat(<<Bol, Str("is"), Chr(Upper)>>), cn)
   THEN <<"State classes should use camelCase: \"is"
            \o ToUpperCase(CharAt0(Slice(cn, 2))) \o Slice(cn, 3) \o "\"">>
   ELSE <<>>)
  \o
  (IF StartsWith(cn, "has") /\ ~Test(Cat(<<Bol, Str("has"), Chr(Upper)>>), cn)
   THEN <<"State classes should use camelCase: \"has"
            \o ToUpperCase(CharAt0(Slice(cn, 3))) \o Slice(cn, 4) \o "\"">>
   ELSE <<>>)
  \o
  (IF Test(Chr(Upper), cn) /\ ~isStateClass(cn)
   THEN <<"HCNC classes (except states) should be lowercase">>
   ELSE <<>>)
  \o
  (IF Includes(cn, "___")
   THEN <<"Maximum nesting is 2 levels (use __ for nested elements)">>
   ELSE <<>>)

\* ValidationResultOf whose failure message is the joined suggestions alone.
ValidationResultOf_BareSuggestions(cn, config, type) ==
  IF type.threw THEN type
      ELSE IF type.type # NULL THEN ReturnResult([valid |-> TRUE, type |-> type.type])
      ELSE IF config.allowUnknown
           THEN ReturnResult([valid |-> TRUE, type |-> NULL,
                        message |-> "Unknown class \"" \o cn \o "\" (allowed by config)"])
      ELSE ReturnResult([valid |-> FALSE, type |-> NULL,
                   message |-> Join(Suggestions(cn), ". ")])

\* ValidationResultOf without the allowUnknown branch.
ValidationResultOf_IgnoresAllowUnknown(cn, config, type) ==
  IF type.threw THEN type
      ELSE IF type.type # NULL THEN ReturnResult([valid |-> TRUE, type |-> type.type])
      ELSE LET suggestions == Suggestions(cn)
               message ==
                 IF Len(suggestions) > 0
                 THEN "Class \"" \o cn \o "\" does not match HCNC convention. "
                        \o Join(suggestions, ". ")
                 ELSE "Class \"" \o cn \o "\" does not match HCNC naming convention"
           IN  ReturnResult([valid |-> FALSE, type |-> NULL, message |-> message])

\* ValidationResultOf that raises for a class no grammar takes.
ValidationResultOf_RaisesOnNoMatch(cn, config, type) ==
  IF type.threw THEN type
      ELSE IF type.type # NULL THEN ReturnResult([valid |-> TRUE, type |-> type.type])
      ELSE IF config.allowUnknown
           THEN ReturnResult([valid |-> TRUE, type |-> NULL,
                        message |-> "Unknown class \"" \o cn \o "\" (allowed by config)"])
      ELSE Throw("Error")

\* validateClassName from its second statement on: type is what getClassType
\* returned or raised.
ValidationResultOf(cn, config, type) ==
  IF type.threw THEN type
      ELSE IF type.type # NULL THEN ReturnResult([valid |-> TRUE, type |-> type.type])
      ELSE IF config.allowUnknown
           THEN ReturnResult([valid |-> TRUE, type |-> NULL,
                        message |-> "Unknown class \"" \o cn \o "\" (allowed by config)"])
      ELSE LET suggestions == Suggestions(cn)
               message ==
                 IF Len(suggestions) > 0
                 THEN "Class \"" \o cn \o "\" does not match HCNC convention. "
                        \o Join(suggestions, ". ")
                 ELSE "Class \"" \o cn \o "\" does not match HCNC naming convention"
           IN  ReturnResult([valid |-> FALSE, type |-> NULL, message |-> message])

validateClassName(cn, config) ==
  ValidationResultOf(cn, config, getClassType(cn, config))

\* \s
Whitespace == {" ", "\t", "\n", "\r"}

RECURSIVE SplitWhitespace(_, _, _)
\* String.prototype.split(/\s+/) from position i on; from is where the
\* segment that holds position i began.
SplitWhitespace(s, from, i) ==
  IF i > Len(s) THEN <<SubSeq(s, from, Len(s))>>
  ELSE IF SubSeq(s, i, i) \in Whitespace
       THEN LET after == CHOOSE j \in (i + 1)..(Len(s) + 1) :
                           /\ \A k \in i..(j - 1) : SubSeq(s, k, k) \in Whitespace
                           /\ j = Len(s) + 1 \/ SubSeq(s, j, j) \notin Whitespace
            IN  <<SubSeq(s, from, i - 1)>> \o SplitWhitespace(s, after, after)
       ELSE SplitWhitespace(s, from, i + 1)

\* Array.prototype.filter(Boolean) on strings: the non-empty ones.
FilterNonEmpty(strs) == SelectSeq(strs, LAMBDA x : x # "")

\* parseClassString without filter(Boolean).
parseClassString_KeepsEmpty(cs) == SplitWhitespace(cs, 1, 1)

parseClassString(cs) == FilterNonEmpty(SplitWhitespace(cs, 1, 1))

\* MapReturn with the results in the reverse order.
MapReturn_Reversed(returns) ==
  IF \E i \in DOMAIN returns : returns[i].threw
  THEN returns[CHOOSE j \in DOMAIN returns :
                 /\ returns[j].threw
                 /\ \A k \in 1..(j - 1) : ~returns[k].threw]
  ELSE ReturnResults([i \in DOMAIN returns |->
                        returns[Len(returns) + 1 - i].result])

\* What the map returns, returns[i] being what the i-th call returned or
\* raised: the first call that raises ends the map.
MapReturn(returns) ==
  IF \E i \in DOMAIN returns : returns[i].threw
  THEN returns[CHOOSE j \in DOMAIN returns :
                 /\ returns[j].threw
                 /\ \A k \in 1..(j - 1) : ~returns[k].threw]
  ELSE ReturnResults([i \in DOMAIN returns |-> returns[i].result])

\* classes.map((cls) => validateClassName(cls, config))
MapValidateClassName(classes, config) ==
  MapReturn([i \in DOMAIN classes |-> validateClassName(classes[i], config)])

validateClassString(cs, config) ==
  MapValidateClassName(parseClassString(cs), config)

RECURSIVE InvalidFrom(_, _, _, _)
RECURSIVE InvalidStep(_, _, _, _, _)

\* The loop of getInvalidClasses from the i-th class on.
InvalidFrom(classes, config, i, invalid) ==
  IF i > Len(classes) THEN ReturnInvalid(invalid)
  ELSE InvalidStep(classes, config, i, invalid,
                   validateClassName(classes[i], config))

\* InvalidStep that lists a class name once, however often it occurs.
InvalidStep_OncePerName(classes, config, i, invalid, result) ==
  IF result.threw THEN result
  ELSE IF ~result.result.valid
          /\ \A k \in DOMAIN invalid : invalid[k].className # classes[i]
       THEN InvalidFrom(classes, config, i + 1,
              Append(invalid, [className |-> classes[i],
                               result |-> result.result]))
  ELSE InvalidFrom(classes, config, i + 1, invalid)

\* The body of the loop for the i-th class, result being what
\* validateClassName returned or raised for it.
InvalidStep(classes, config, i, invalid, result) ==
  IF result.threw THEN result
  ELSE IF ~result.result.valid
       THEN InvalidFrom(classes, config, i + 1,
              Append(invalid, [className |-> classes[i],
                               result |-> result.result]))
  ELSE InvalidFrom(classes, config, i + 1, invalid)

getInvalidClasses(cs, config) ==
  InvalidFrom(parseClassString(cs), config, 1, <<>>)

-----------------------------------------------------------------------------
(* CSS Selector Validation                                                 *)

\* /\.([a-zA-Z_][a-zA-Z0-9_-]*)/g
CLASS_SELECTOR_PATTERN ==
  Cat(<<Str("."), Chr(Lower \cup Upper \cup {"_"}), Many(Chr(Lower \cup Upper \cup Digit \cup {"_", "-"}), 0)>>)

\* The largest member of a non-empty set of positions.
Last(positions) == CHOOSE p \in positions : \A q \in positions : q <= p

RECURSIVE MatchAll(_, _, _)
\* String.prototype.match with a global pattern, from position i on: the
\* matches from left to right, each as long as its greedy quantifier allows,
\* the next search starting where the last match ended.
MatchAll(re, s, i) ==
  LET starts == {j \in i..(Len(s) + 1) : Ends(re, s, j) # {}}
  IN  IF starts = {} THEN <<>>
      ELSE LET start == CHOOSE j \in starts : \A k \in starts : j <= k
               end == Last(Ends(re, s, start))
           IN  <<SubSeq(s, start, end - 1)>>
                 \o MatchAll(re, s, IF end = start THEN end + 1 ELSE end)

\* extractClassSelectors without slice(1).
extractClassSelectors_KeepsDot(sel) == MatchAll(CLASS_SELECTOR_PATTERN, sel, 1)

extractClassSelectors(sel) ==
  LET matches == MatchAll(CLASS_SELECTOR_PATTERN, sel, 1)
  IN  [i \in DOMAIN matches |-> Slice(matches[i], 1)]

validateCssSelector(sel, config) ==
  MapValidateClassName(extractClassSelectors(sel), config)

-----------------------------------------------------------------------------
(* SCSS Nesting Validation                                                 *)

RECURSIVE Split(_, _, _, _)
\* String.prototype.split(sep) with a separator of one character, from
\* position i on; from is where the piece that holds position i began.
Split(s, sep, from, i) ==
  IF i > Len(s) THEN <<SubSeq(s, from, Len(s))>>
  ELSE IF SubSeq(s, i, i) = sep
       THEN <<SubSeq(s, from, i - 1)>> \o Split(s, sep, i + 1, i + 1)
  ELSE Split(s, sep, from, i + 1)

\* String.prototype.trim
Trim(s) ==
  LET inked == {i \in 1..Len(s) : SubSeq(s, i, i) \notin Whitespace}
  IN  IF inked = {} THEN ""
      ELSE SubSeq(s, CHOOSE a \in inked : \A i \in inked : a <= i,
                     CHOOSE b \in inked : \A i \in inked : i <= b)

\* [.#]?[a-zA-Z_&][a-zA-Z0-9_-]*
SIMPLE_SELECTOR ==
  Cat(<<Rep(Chr({".", "#"}), 0, 1), Chr(Lower \cup Upper \cup {"_", "&"}),
        Many(Chr(Lower \cup Upper \cup Digit \cup {"_", "-"}), 0)>>)

\* The group of /^([.#]?[a-zA-Z_&][a-zA-Z0-9_-]*(?:\s*,\s*[.#]?[a-zA-Z_&][a-zA-Z0-9_-]*)*)\s*\{?\s*$/
SELECTOR_GROUP ==
  Cat(<<SIMPLE_SELECTOR,
        Many(Cat(<<Many(Chr(Whitespace), 0), Str(","), Many(Chr(Whitespace), 0),
                   SIMPLE_SELECTOR>>), 0)>>)

\* What follows the group: \s*\{?\s*$
SELECTOR_REST ==
  Cat(<<Many(Chr(Whitespace), 0), Rep(Str("{"), 0, 1), Many(Chr(Whitespace), 0), Eol>>)

\* trimmed.match(...): whether the line matches, and the text of its group.
SelectorMatch(trimmed) ==
  LET ends == {e \in Ends(SELECTOR_GROUP, trimmed, 1) :
                 Ends(SELECTOR_REST, trimmed, e) # {}}
  IN  IF ends = {} THEN [matched |-> FALSE, group |-> ""]
      ELSE [matched |-> TRUE, group |-> SubSeq(trimmed, 1, Last(ends) - 1)]

\* ResolveParent that takes the bottom of the stack for the parent.
ResolveParent_Outermost(stack, sel) ==
  IF StartsWith(sel, "&")
  THEN (IF Len(stack) > 0 THEN stack[1] ELSE "") \o Slice(sel, 1)
  ELSE sel

\* The selector with a leading & replaced by the top of the stack.
ResolveParent(stack, sel) ==
  IF StartsWith(sel, "&")
  THEN (IF Len(stack) > 0 THEN stack[Len(stack)] ELSE "") \o Slice(sel, 1)
  ELSE sel

\* The selector of a matching line is resolved, recorded when it starts with
\* a dot, and pushed.
PushSelector(state, sel) ==
  [expanded |-> IF StartsWith(ResolveParent(state.stack, sel), ".")
                THEN Append(state.expanded, Slice(ResolveParent(state.stack, sel), 1))
                ELSE state.expanded,
   stack |-> Append(state.stack, ResolveParent(state.stack, sel))]

\* Array.prototype.pop
Pop(stack) == IF Len(stack) = 0 THEN stack ELSE SubSeq(stack, 1, Len(stack) - 1)

\* The first half of the loop body: the check for a selector opening.
AfterSelectorMatch(state, selectorMatch) ==
  IF selectorMatch.matched THEN PushSelector(state, selectorMatch.group) ELSE state

\* The second half of the loop body: the check for a block close.
AfterBlockClose(state, trimmed) ==
  IF Includes(trimmed, "}") THEN [state EXCEPT !.stack = Pop(@)] ELSE state

\* The body of the loop over the lines.
ScssLine(state, line) ==
  AfterBlockClose(AfterSelectorMatch(state, SelectorMatch(Trim(line))), Trim(line))

RECURSIVE ScssLines(_, _, _)
\* The loop over the lines from the i-th on.
ScssLines(lines, i, state) ==
  IF i > Len(lines) THEN state
  ELSE ScssLines(lines, i + 1, ScssLine(state, lines[i]))

expandScssNesting(text) ==
  ScssLines(Split(text, "\n", 1, 1), 1, [expanded |-> <<>>, stack |-> <<>>]).expanded

-----------------------------------------------------------------------------
(* CLI: hcnc init                                                          *)

\* hcncPlugins
HCNC_PLUGINS ==
  <<"./node_modules/@hikasami/naming/rules/hcnc-jsx.grit",
    "./node_modules/@hikasami/naming/rules/hcnc-css.grit">>

\* biome.json: whether it exists, the form of its text (malformed, compact,
\* or pretty as JSON.stringify(config, null, 2) writes it) and the value the
\* text stands for: its fields other than plugins, and plugins (missing, a
\* string, or an array with its entries).
BiomeFile(form, fields, pluginsKind, plugins) ==
  [exists |-> TRUE, form |-> form,
   value |-> [fields |-> fields, pluginsKind |-> pluginsKind, plugins |-> plugins]]

NoValue == [fields |-> {}, pluginsKind |-> "missing", plugins |-> <<>>]

NoFile == [exists |-> FALSE, form |-> "none", value |-> NoValue]

\* JSON.parse(content)
JsonParse(file) ==
  IF file.form = "malformed" THEN Throw("SyntaxError")
  ELSE [threw |-> FALSE, config |-> file.value]

\* writeFileSync(biomeConfigPath, JSON.stringify(config, null, 2) + newline)
WriteConfig(config) == [exists |-> TRUE, form |-> "pretty", value |-> config]

\* Array.prototype.includes
ArrayIncludes(arr, x) == \E i \in DOMAIN arr : arr[i] = x

\* if (!config.plugins) config.plugins = []
WithPlugins(config) ==
  IF config.pluginsKind = "missing"
  THEN [config EXCEPT !.pluginsKind = "array", !.plugins = <<>>]
  ELSE config

RECURSIVE AddPlugins(_, _, _)
\* The loop over hcncPlugins from the k-th on: config.plugins.includes is
\* false for a string that is not the path, and config.plugins.push raises
\* TypeError for a string.
AddPlugins(config, added, k) ==
  IF k > Len(HCNC_PLUGINS) THEN [threw |-> FALSE, config |-> config, added |-> added]
  ELSE IF config.pluginsKind = "string" THEN Throw("TypeError")
  ELSE IF ArrayIncludes(config.plugins, HCNC_PLUGINS[k])
       THEN AddPlugins(config, added, k + 1)
  ELSE AddPlugins([config EXCEPT !.plugins = Append(@, HCNC_PLUGINS[k])],
                  added + 1, k + 1)

\* AfterUpdate that writes the file whether or not a plugin was added.
AfterUpdate_AlwaysWrites(file, update) ==
  IF update.threw THEN [file |-> file, exit |-> 1, wrote |-> FALSE]
  ELSE [file |-> WriteConfig(update.config), exit |-> 0, wrote |-> TRUE]

\* The end of the branch for an existing file: update is what the body of
\* the try returned or raised.
AfterUpdate(file, update) ==
  IF update.threw THEN [file |-> file, exit |-> 1, wrote |-> FALSE]
  ELSE IF update.added > 0
       THEN [file |-> WriteConfig(update.config), exit |-> 0, wrote |-> TRUE]
  ELSE [file |-> file, exit |-> 0, wrote |-> FALSE]

\* The body of the try, from the parsed content on.
UpdateParsed(parsed) ==
  IF parsed.threw THEN parsed
  ELSE AddPlugins(WithPlugins(parsed.config), 0, 1)

\* The configuration a new biome.json is created with.
NewConfig ==
  [fields |-> {"$schema", "linter"}, pluginsKind |-> "array", plugins |-> HCNC_PLUGINS]

\* initCommand: the file after the run, the exit code of the process, and
\* whether the file was written.
initCommand(file) ==
  IF file.exists THEN AfterUpdate(file, UpdateParsed(JsonParse(file)))
  ELSE [file |-> WriteConfig(NewConfig), exit |-> 0, wrote |-> TRUE]

-----------------------------------------------------------------------------
(* CLI: hcnc check <directory>                                             *)

\* The characters of markup that the class names and selectors do not use.
MarkupChar == {"<", ">", "=", "\"", "'"}

\* [^...]
AnyBut(cs) == Chr((AnyChar \cup MarkupChar) \ cs)

Quote == Chr({"\"", "'"})

\* classNameRegex
CLASS_NAME_REGEX ==
  Cat(<<Alt(<<Str("className"), Str("class")>>), Str("="), Quote,
        Many(AnyBut({"\"", "'"}), 1), Quote>>)

\* classRegex
CLASS_REGEX ==
  Cat(<<Str("class="), Quote, Many(AnyBut({"\"", "'"}), 1), Quote>>)

\* match[1] of a match of classNameRegex or classRegex: what is between the
\* quotes.
Quoted(match) ==
  LET open == CHOOSE i \in 1..Len(match) :
                /\ SubSeq(match, i, i) \in {"\"", "'"}
                /\ \A j \in 1..(i - 1) : SubSeq(match, j, j) \notin {"\"", "'"}
  IN  SubSeq(match, open + 1, Len(match) - 1)

RECURSIVE Flatten(_, _)
\* classes.push(...list) for each list from the k-th on
Flatten(lists, k) ==
  IF k > Len(lists) THEN <<>> ELSE lists[k] \o Flatten(lists, k + 1)

RECURSIVE Unique(_, _)
\* [...new Set(classes)]: the first occurrence of each, in order
Unique(classes, k) ==
  IF k > Len(classes) THEN <<>>
  ELSE IF \E j \in 1..(k - 1) : classes[j] = classes[k] THEN Unique(classes, k + 1)
  ELSE <<classes[k]>> \o Unique(classes, k + 1)

\* The classes of the quoted attributes that re matches.
AttributeClasses(content, re) ==
  LET matches == MatchAll(re, content, 1)
  IN  Flatten([i \in DOMAIN matches |-> parseClassString(Quoted(matches[i]))], 1)

\* templateRegex matches from a backtick on, and no content here holds
\* one: the template literals add no class.
extractClassesFromFile(content, ext) ==
  Unique((IF ext \in {".jsx", ".tsx", ".js", ".ts"}
          THEN AttributeClasses(content, CLASS_NAME_REGEX)
          ELSE <<>>)
         \o (IF ext \in {".css", ".scss", ".sass"}
             THEN extractClassSelectors(content)
             ELSE <<>>)
         \o (IF ext = ".html"
             THEN AttributeClasses(content, CLASS_REGEX)
             ELSE <<>>), 1)

\* supportedExtensions
SUPPORTED_EXTENSIONS == {".jsx", ".tsx", ".js", ".ts", ".css", ".scss", ".sass", ".html"}

\* String.prototype.toLowerCase, of one character
ToLowerCaseChar(c) ==
  IF c \in Upper
  THEN LET k == CHOOSE j \in 1..Len(UpperLetters) : SubSeq(UpperLetters, j, j) = c
       IN  SubSeq(LowerLetters, k, k)
  ELSE c

RECURSIVE ToLowerCase(_)
ToLowerCase(s) ==
  IF s = "" THEN "" ELSE ToLowerCaseChar(CharAt0(s)) \o ToLowerCase(Slice(s, 1))

\* path.extname: from the last dot on, nothing when there is no dot or the
\* only dot opens the name
ExtName(entry) ==
  LET dots == {i \in 2..Len(entry) : SubSeq(entry, i, i) = "."}
  IN  IF dots = {} THEN "" ELSE SubSeq(entry, Last(dots), Len(entry))

\* path.join(dir, entry)
PathJoin(dir, entry) == dir \o "/" \o entry

\* An entry of a directory: its name, what statSync says it is (file,
\* directory or other), the call that fails on it with an I/O error (none,
\* stat, read or readdir), the content of a file and the entries of a
\* directory.
File(name, fails, content) ==
  [name |-> name, kind |-> "file", fails |-> fails, content |-> content, entries |-> <<>>]

Directory(name, fails, entries) ==
  [name |-> name, kind |-> "directory", fails |-> fails, content |-> "", entries |-> entries]

Other(name) ==
  [name |-> name, kind |-> "other", fails |-> "none", content |-> "", entries |-> <<>>]

\* stats, invalidClasses and the errors logged, before the walk
BeforeWalk ==
  [threw |-> FALSE, totalFiles |-> 0, totalClasses |-> 0,
   invalidClasses |-> <<>>, errors |-> <<>>]

\* result.message || 'Invalid class name'
MessageOf(result) ==
  IF result.message = "" THEN "Invalid class name" ELSE result.message

RECURSIVE ValidateClasses(_, _, _, _)
\* for (const cls of classes), from the k-th on
ValidateClasses(fullPath, classes, k, invalidClasses) ==
  IF k > Len(classes) THEN invalidClasses
  ELSE IF ~validateClassName(classes[k], NoConfig).result.valid
       THEN ValidateClasses(fullPath, classes, k + 1,
              Append(invalidClasses,
                     [file |-> fullPath, className |-> classes[k],
                      message |-> MessageOf(validateClassName(classes[k], NoConfig).result)]))
  ELSE ValidateClasses(fullPath, classes, k + 1, invalidClasses)

\* The try of a supported file, classes being the classes of its content.
CheckClasses(fullPath, classes, st) ==
  [st EXCEPT !.totalClasses = @ + Len(classes),
             !.invalidClasses = ValidateClasses(fullPath, classes, 1, @)]

\* A supported file: counted, then read and checked; a failure of
\* readFileSync is caught and logged.
CheckFile(fullPath, entry, ext, st) ==
  IF entry.fails = "read"
  THEN [st EXCEPT !.totalFiles = @ + 1, !.errors = Append(@, fullPath)]
  ELSE CheckClasses(fullPath, extractClassesFromFile(entry.content, ext),
                    [st EXCEPT !.totalFiles = @ + 1])

RECURSIVE walkDir(_, _, _, _)
RECURSIVE WalkEntry(_, _, _)
\* The body of the loop for one entry. statSync is outside any try: its
\* failure ends the walk.
WalkEntry(dir, entry, st) ==
  IF entry.fails = "stat" THEN [st EXCEPT !.threw = TRUE]
  ELSE IF entry.kind = "directory"
       THEN IF ~StartsWith(entry.name, ".") /\ entry.name # "node_modules"
            THEN walkDir(PathJoin(dir, entry.name), entry, 1, st)
            ELSE st
  ELSE IF entry.kind = "file"
       THEN IF ToLowerCase(ExtName(entry.name)) \in SUPPORTED_EXTENSIONS
            THEN CheckFile(PathJoin(dir, entry.name), entry,
                           ToLowerCase(ExtName(entry.name)), st)
            ELSE st
  ELSE st

\* walkDir(dir), from the k-th entry of readdirSync(dir) on. readdirSync is
\* outside any try: its failure ends the walk.
walkDir(dir, directory, k, st) ==
  IF st.threw THEN st
  ELSE IF directory.fails = "readdir" THEN [st EXCEPT !.threw = TRUE]
  ELSE IF k > Len(directory.entries) THEN st
  ELSE walkDir(dir, directory, k + 1, WalkEntry(dir, directory.entries[k], st))

\* What the process leaves: whether it died of an uncaught error, its exit
\* code, the invalid classes of the report and the files logged as not read.
AfterWalk(st) ==
  IF st.threw
  THEN [threw |-> TRUE, exit |-> 1, report |-> <<>>, errors |-> st.errors]
  ELSE [threw |-> FALSE, exit |-> IF Len(st.invalidClasses) > 0 THEN 1 ELSE 0,
        report |-> st.invalidClasses, errors |-> st.errors]

checkDirectory(dirPath, entries) ==
  AfterWalk(walkDir(dirPath, Directory(dirPath, "none", entries), 1, BeforeWalk))

-----------------------------------------------------------------------------
(* The configurations, class strings and selectors the callers hold.       *)

\* A pattern that is not anchored, and one that does not compile.
CustomSources == {"card-", "("}

CustomLists == UNION {[1..n -> CustomSources] : n \in 0..MaxCustom}

Configs ==
  {HcncConfig(cu, au, sb) : cu \in CustomLists, au \in BOOLEAN, sb \in BOOLEAN}

\* The most class names in a class string.
MaxClasses == 2

\* A block, a name no grammar takes, a utility, a name only the custom source
\* takes.
BatchNames == {"card", "A", "to-2", "card-"}

NameLists == UNION {[1..n -> BatchNames] : n \in 0..MaxClasses}

Separators == {" ", "  ", "\t", "\n"}

Pads == {"", " "}

ClassStrings ==
  {pad \o Join(names, sep) \o pad :
     names \in NameLists, sep \in Separators, pad \in Pads}

\* The most parts in a selector.
MaxParts == 2

SelectorParts == {".card", ".A", ".to-2", "#id", " div", ":hover"}

RECURSIVE PartRuns(_)
PartRuns(n) ==
  IF n = 0 THEN {""}
  ELSE LET shorter == PartRuns(n - 1)
       IN  shorter \cup {r \o p : r \in shorter, p \in SelectorParts}

Selectors == PartRuns(MaxParts)

\* The most lines in an SCSS text.
MaxLines == 4

\* Block openings with ., # and &, a declaration, a block close, and the
\* opening of a pseudo-class block.
LineKinds ==
  {".card {", "  &_a {", "&__b{", "#id {", "color: red;", "}", "&:hover {"}

ScssTexts == {Join(lines, "\n") : lines \in UNION {[1..n -> LineKinds] : n \in 0..MaxLines}}

\* The most entries of the plugins array of a biome.json.
MaxPlugins == 2

PluginLists ==
  UNION {[1..n -> {"./other.grit", HCNC_PLUGINS[1], HCNC_PLUGINS[2]}] : n \in 0..MaxPlugins}

\* No file, a file that does not parse, and files that parse: compact or
\* pretty, with any of two other fields, and with plugins missing, a string
\* or an array.
BiomeFiles ==
  {NoFile, [exists |-> TRUE, form |-> "malformed", value |-> NoValue]}
  \cup {BiomeFile(form, fields, "array", plugins) :
          form \in {"compact", "pretty"}, fields \in SUBSET {"linter", "formatter"},
          plugins \in PluginLists}
  \cup {BiomeFile(form, fields, kind, <<>>) :
          form \in {"compact", "pretty"}, fields \in SUBSET {"linter", "formatter"},
          kind \in {"missing", "string"}}

\* The most entries of the directory that is checked.
MaxEntries == 2

\* Files: with an invalid class twice and a valid one, with valid classes
\* only, markup with an invalid class, a component with an invalid class, a
\* file that cannot be read, a dangling link, and a file that is not
\* supported.
Files ==
  {File("bad.css", "none", ".A .card .A{}"),
   File("ok.css", "none", ".card_a{}"),
   File("page.HTML", "none", "<p class=\"card B\">"),
   File("app.tsx", "none", "<a className='to C'>"),
   File("locked.css", "read", ".D{}"),
   File("gone.css", "stat", ""),
   File("notes.md", "none", ".E{}")}

\* Directories: with a file, with a file that cannot be read before one that
\* can, with a dangling link before a file, the ones the walk skips, and one
\* that cannot be listed; and a pipe.
Entries ==
  Files
  \cup {Directory("sub", "none", <<File("bad.css", "none", ".A .card .A{}")>>),
        Directory("lib", "none", <<File("locked.css", "read", ".D{}"),
                                   File("bad.css", "none", ".A .card .A{}")>>),
        Directory("pkg", "none", <<File("gone.css", "stat", ""),
                                   File("bad.css", "none", ".A .card .A{}")>>),
        Directory(".git", "none", <<File("bad.css", "none", ".A .card .A{}")>>),
        Directory("node_modules", "none", <<File("bad.css", "none", ".A .card .A{}")>>),
        Directory("private", "readdir", <<>>),
        Other("pipe.css")}

\* What readdirSync may return for the directory: entries of different
\* names, in any order.
Listings ==
  {l \in UNION {[1..n -> Entries] : n \in 0..MaxEntries} :
     \A i, j \in DOMAIN l : i # j => l[i].name # l[j].name}

-----------------------------------------------------------------------------
(* A caller holds one input and calls the functions on it, one call at a   *)
(* time.                                                                   *)

Idle == [fn |-> "idle"]

NoRet == [threw |-> FALSE]

\* seen keeps one finished call and what it returned or raised, for the
\* comparison with a later call; nothing is kept at first.
NotSeen == [call |-> Idle, ret |-> NoRet]

Init ==
  /\ \/ holds = "className" /\ className \in ClassNames
        /\ classString = "" /\ selector = "" /\ scss = "" /\ tree = <<>> /\ biome = NoFile
     \/ holds = "classString" /\ classString \in ClassStrings
        /\ className = "" /\ selector = "" /\ scss = "" /\ tree = <<>> /\ biome = NoFile
     \/ holds = "selector" /\ selector \in Selectors
        /\ className = "" /\ classString = "" /\ scss = "" /\ tree = <<>> /\ biome = NoFile
     \/ holds = "scss" /\ scss \in ScssTexts
        /\ className = "" /\ classString = "" /\ selector = "" /\ tree = <<>> /\ biome = NoFile
     \/ holds = "biome" /\ biome \in BiomeFiles
        /\ className = "" /\ classString = "" /\ selector = "" /\ scss = ""
        /\ tree = <<>>
     \/ holds = "tree" /\ tree \in Listings
        /\ className = "" /\ classString = "" /\ selector = "" /\ scss = ""
        /\ biome = NoFile
  /\ call = Idle
  /\ ret = NoRet
  /\ seen = NotSeen

CallIsBlock ==
  /\ holds = "className"
  /\ call = Idle
  /\ call' = [fn |-> "isBlock"]
  /\ ret' = ReturnBool(isBlock(className))
  /\ UNCHANGED <<inputs, seen, biome>>

CallIsElement ==
  /\ holds = "className"
  /\ call = Idle
  /\ call' = [fn |-> "isElement"]
  /\ ret' = ReturnBool(isElement(className))
  /\ UNCHANGED <<inputs, seen, biome>>

CallIsNestedElement ==
  /\ holds = "className"
  /\ call = Idle
  /\ call' = [fn |-> "isNestedElement"]
  /\ ret' = ReturnBool(isNestedElement(className))
  /\ UNCHANGED <<inputs, seen, biome>>

CallIsModifier ==
  /\ holds = "className"
  /\ call = Idle
  /\ call' = [fn |-> "isModifier"]
  /\ ret' = ReturnBool(isModifier(className))
  /\ UNCHANGED <<inputs, seen, biome>>

CallIsStateClass ==
  /\ holds = "className"
  /\ call = Idle
  /\ call' = [fn |-> "isStateClass"]
  /\ ret' = ReturnBool(isStateClass(className))
  /\ UNCHANGED <<inputs, seen, biome>>

CallIsUtilityClass ==
  /\ holds = "className"
  /\ call = Idle
  /\ \E customPatterns \in CustomLists :
       /\ call' = [fn |-> "isUtilityClass", customPatterns |-> customPatterns]
       /\ ret' = isUtilityClass(className, customPatterns)
  /\ UNCHANGED <<inputs, seen, biome>>

CallIsHcncClass ==
  /\ holds = "className"
  /\ call = Idle
  /\ call' = [fn |-> "isHcncClass"]
  /\ ret' = ReturnBool(isHcncClass(className))
  /\ UNCHANGED <<inputs, seen, biome>>

CallGetClassType ==
  /\ holds = "className"
  /\ call = Idle
  /\ \E config \in {c \in Configs : ~c.allowUnknown} :
       /\ call' = [fn |-> "getClassType", config |-> config]
       /\ ret' = getClassType(className, config)
  /\ UNCHANGED <<inputs, seen, biome>>

CallValidateClassName ==
  /\ holds = "className"
  /\ call = Idle
  /\ \E config \in Configs :
       /\ call' = [fn |-> "validateClassName", config |-> config]
       /\ ret' = validateClassName(className, config)
  /\ UNCHANGED <<inputs, seen, biome>>

CallParseClassString ==
  /\ holds = "classString"
  /\ call = Idle
  /\ call' = [fn |-> "parseClassString"]
  /\ ret' = ReturnNames(parseClassString(classString))
  /\ UNCHANGED <<inputs, seen, biome>>

CallValidateClassString ==
  /\ holds = "classString"
  /\ call = Idle
  /\ \E config \in Configs :
       /\ call' = [fn |-> "validateClassString", config |-> config]
       /\ ret' = validateClassString(classString, config)
  /\ UNCHANGED <<inputs, seen, biome>>

CallGetInvalidClasses ==
  /\ holds = "classString"
  /\ call = Idle
  /\ \E config \in Configs :
       /\ call' = [fn |-> "getInvalidClasses", config |-> config]
       /\ ret' = getInvalidClasses(classString, config)
  /\ UNCHANGED <<inputs, seen, biome>>

CallExtractClassSelectors ==
  /\ holds = "selector"
  /\ call = Idle
  /\ call' = [fn |-> "extractClassSelectors"]
  /\ ret' = ReturnNames(extractClassSelectors(selector))
  /\ UNCHANGED <<inputs, seen, biome>>

CallValidateCssSelector ==
  /\ holds = "selector"
  /\ call = Idle
  /\ \E config \in Configs :
       /\ call' = [fn |-> "validateCssSelector", config |-> config]
       /\ ret' = validateCssSelector(selector, config)
  /\ UNCHANGED <<inputs, seen, biome>>

CallExpandScssNesting ==
  /\ holds = "scss"
  /\ call = Idle
  /\ call' = [fn |-> "expandScssNesting"]
  /\ ret' = ReturnNames(expandScssNesting(scss))
  /\ UNCHANGED <<inputs, seen, biome>>

\* hcnc check src
CallCheckDirectory ==
  /\ holds = "tree"
  /\ call = Idle
  /\ call' = [fn |-> "checkDirectory", dirPath |-> "src"]
  /\ ret' = checkDirectory("src", tree)
  /\ UNCHANGED <<inputs, seen, biome>>

\* hcnc init: found is the biome.json the run found.
CallInitCommand ==
  /\ holds = "biome"
  /\ call = Idle
  /\ call' = [fn |-> "initCommand", found |-> biome]
  /\ biome' = initCommand(biome).file
  /\ ret' = [threw |-> FALSE, exit |-> initCommand(biome).exit,
              wrote |-> initCommand(biome).wrote]
  /\ UNCHANGED <<inputs, seen>>

\* The caller takes the result and is ready for the next call.
Finish ==
  /\ call # Idle
  /\ call' = Idle
  /\ ret' = NoRet
  /\ UNCHANGED <<inputs, seen, biome>>

Next ==
  \/ CallIsBlock
  \/ CallIsElement
  \/ CallIsNestedElement
  \/ CallIsModifier
  \/ CallIsStateClass
  \/ CallIsUtilityClass
  \/ CallIsHcncClass
  \/ CallGetClassType
  \/ CallValidateClassName
  \/ CallParseClassString
  \/ CallValidateClassString
  \/ CallGetInvalidClasses
  \/ CallExtractClassSelectors
  \/ CallValidateCssSelector
  \/ CallExpandScssNesting
  \/ CallCheckDirectory
  \/ CallInitCommand
  \/ Finish

Spec == Init /\ [][Next]_vars

-----------------------------------------------------------------------------
(* A caller that classifies one class name again and again, and keeps the  *)
(* outcome of one of its calls.                                            *)

\* A state, a modifier, a nested element, an element, a built-in utility, a
\* block, a name only the custom source takes, and a name no grammar takes.
SeenNames ==
  {"isA", "card--x", "card_a__b", "card_a", "to-2", "card", "card-", "A-"}

InitSeen ==
  /\ holds = "className" /\ className \in SeenNames
  /\ classString = "" /\ selector = "" /\ scss = "" /\ tree = <<>> /\ biome = NoFile
  /\ call = Idle
  /\ ret = NoRet
  /\ seen = NotSeen

\* The caller takes the result and keeps it with the call.
FinishSeen ==
  /\ call # Idle
  /\ seen = NotSeen
  /\ seen' = [call |-> call, ret |-> ret]
  /\ call' = Idle
  /\ ret' = NoRet
  /\ UNCHANGED <<inputs, biome>>

NextSeen ==
  \/ CallIsBlock
  \/ CallIsElement
  \/ CallIsNestedElement
  \/ CallIsModifier
  \/ CallIsStateClass
  \/ CallIsUtilityClass
  \/ CallIsHcncClass
  \/ CallGetClassType
  \/ CallValidateClassName
  \/ Finish
  \/ FinishSeen

SpecSeen == InitSeen /\ [][NextSeen]_vars

-----------------------------------------------------------------------------
(* What the grammars say of a class name, stated apart from the classifier. *)

\* The kinds in the order of precedence.
KindOrder == <<"state", "modifier", "nested-element", "element", "utility", "block">>

\* Some custom source does not compile.
HasMalformedSource(customUtilities) ==
  \E k \in DOMAIN customUtilities : NewRegExp(customUtilities[k]).threw

\* cn matches a built-in utility pattern or a custom source that compiles.
SatisfiesUtility(cn, customUtilities) ==
  \/ MatchesBuiltinUtility(cn)
  \/ \E k \in DOMAIN customUtilities :
       LET pattern == NewRegExp(customUtilities[k])
       IN  ~pattern.threw /\ Test(pattern.regexp, cn)

Satisfies(kind, cn, customUtilities) ==
  CASE kind = "state" -> isStateClass(cn)
    [] kind = "modifier" -> isModifier(cn)
    [] kind = "nested-element" -> isNestedElement(cn)
    [] kind = "element" -> isElement(cn)
    [] kind = "utility" -> SatisfiesUtility(cn, customUtilities)
    [] kind = "block" -> isBlock(cn)

\* The first kind, in the order of precedence, whose grammar cn satisfies.
FirstKind(cn, customUtilities) ==
  LET hits == {k \in DOMAIN KindOrder : Satisfies(KindOrder[k], cn, customUtilities)}
  IN  IF hits = {} THEN NULL
      ELSE KindOrder[CHOOSE k \in hits : \A j \in hits : k <= j]

\* is or has, then an uppercase letter, then letters and digits only.
IsStateShape(cn) ==
  \E prefix \in {"is", "has"} :
    /\ StartsWith(cn, prefix)
    /\ Len(cn) > Len(prefix)
    /\ SubSeq(cn, Len(prefix) + 1, Len(prefix) + 1) \in Upper
    /\ \A i \in (Len(prefix) + 2)..Len(cn) :
         SubSeq(cn, i, i) \in Lower \cup Upper \cup Digit

\* cn matches block and none of state, modifier, nested-element, element.
BlockAlone(cn) ==
  /\ isBlock(cn)
  /\ ~isStateClass(cn) /\ ~isModifier(cn) /\ ~isNestedElement(cn) /\ ~isElement(cn)

-----------------------------------------------------------------------------
(* C1 *)

\* C1 as stated: for every token and every configuration getClassType returns
\* the kind of the first grammar the token satisfies in the order state,
\* modifier, nested-element, element, utility, block, and null exactly when it
\* satisfies none.
C1_FirstKindAlways ==
  call.fn = "getClassType" =>
    ret = ReturnType(FirstKind(className, call.config.customUtilities))

\* C1, amended: a getClassType call that returns gives the kind of the first
\* grammar the token satisfies in the order of precedence, except that with
\* strictBem a token whose first grammar is utility gives null; it gives null
\* otherwise only when no grammar is satisfied; a token of the state shape is
\* always state; and the call raises only when a custom source is malformed.
C1_FirstKindUnlessStrict ==
  call.fn = "getClassType" =>
    LET first == FirstKind(className, call.config.customUtilities)
    IN  /\ IsStateShape(className) => ret = ReturnType("state")
        /\ ~ret.threw =>
             ret.type = IF first = "utility" /\ call.config.strictBem
                         THEN NULL ELSE first
        /\ ret.threw => HasMalformedSource(call.config.customUtilities)

\* A strict-mode call on a block-shaped utility has returned null.
C1_Witness ==
  /\ call.fn = "getClassType"
  /\ call.config.strictBem
  /\ MatchesBuiltinUtility(className)
  /\ isBlock(className)
  /\ ret = ReturnType(NULL)

-----------------------------------------------------------------------------
(* C2 *)

\* C2: for a token that matches block and none of state, modifier,
\* nested-element, element, getClassType returns block if the token matches no
\* utility grammar (built-in or custom), utility if it matches one and
\* strictBem is off, and null if it matches one and strictBem is on.
C2_BlockUtilityTie ==
  (call.fn = "getClassType" /\ BlockAlone(className)) =>
    LET utility == SatisfiesUtility(className, call.config.customUtilities)
    IN  /\ ~HasMalformedSource(call.config.customUtilities) => ~ret.threw
        /\ ~ret.threw =>
             ret.type = IF ~utility THEN "block"
                         ELSE IF call.config.strictBem THEN NULL
                         ELSE "utility"

\* A strict-mode call on a block that only a custom source makes a utility has
\* returned null.
C2_Witness ==
  /\ call.fn = "getClassType"
  /\ BlockAlone(className)
  /\ call.config.strictBem
  /\ ~MatchesBuiltinUtility(className)
  /\ SatisfiesUtility(className, call.config.customUtilities)
  /\ ret = ReturnType(NULL)

-----------------------------------------------------------------------------
(* C3 *)

\* C3: with kind the result of getClassType under the default configuration,
\* isHcncClass is false when the kind is state or utility and true when it is
\* block, element, nested-element or modifier.
C3_HcncFollowsKind ==
  call.fn = "isHcncClass" =>
    LET kind == getClassType(className, NoConfig).type
    IN  /\ kind \in {"state", "utility"} => ret.bool = FALSE
        /\ kind \in {"block", "element", "nested-element", "modifier"} =>
             ret.bool = TRUE

-----------------------------------------------------------------------------
(* C4 *)

\* C4: a token with three or more consecutive underscores matches no grammar
\* (block, element, nested-element, modifier, state, built-in utility), and
\* getClassType returns null for it under the default configuration.
C4_TripleUnderscoreRejected ==
  Includes(className, "___") =>
    /\ call.fn \in {"isBlock", "isElement", "isNestedElement", "isModifier",
                    "isStateClass"} => ret.bool = FALSE
    /\ (call.fn = "isUtilityClass" /\ call.customPatterns = <<>>) =>
         ret.bool = FALSE
    /\ (call.fn = "getClassType" /\ call.config = NoConfig) => ret = ReturnType(NULL)

-----------------------------------------------------------------------------
(* C5 *)

\* C5: under the default configuration, if some grammar matches the token then
\* validateClassName gives valid = true with the kind of the matching grammar;
\* if none matches it gives valid = false, kind null and a non-empty message.
C5_ValidIffSomeGrammar ==
  (call.fn = "validateClassName" /\ call.config = NoConfig) =>
    LET first == FirstKind(className, <<>>)
    IN  /\ ~ret.threw
        /\ first # NULL =>
             /\ ret.result = [valid |-> TRUE, type |-> first]
             /\ Satisfies(ret.result.type, className, <<>>)
        /\ first = NULL =>
             /\ ret.result.valid = FALSE
             /\ ret.result.type = NULL
             /\ "message" \in DOMAIN ret.result
             /\ Len(ret.result.message) > 0

\* A default-configuration call on a token that matches no grammar and draws no
\* suggestion has returned the failure with its message.
C5_Witness ==
  /\ call.fn = "validateClassName"
  /\ call.config = NoConfig
  /\ FirstKind(className, <<>>) = NULL
  /\ Suggestions(className) = <<>>
  /\ ~ret.threw
  /\ ~ret.result.valid
  /\ Len(ret.result.message) > 0

-----------------------------------------------------------------------------
(* C6 *)

\* r has the fields and the values of a ValidationResult.
IsValidationResult(r) ==
  /\ {"valid", "type"} \subseteq DOMAIN r
  /\ DOMAIN r \subseteq {"valid", "type", "message"}
  /\ r.valid \in BOOLEAN
  /\ r.type \in HcncClassType \cup {NULL}

\* A token no grammar takes is reported as data.
ReportedAsData(cn, config, r) ==
  (FirstKind(cn, config.customUtilities) = NULL /\ ~config.allowUnknown) =>
    /\ r.valid = FALSE
    /\ "message" \in DOMAIN r
    /\ Len(r.message) > 0

\* The class names a batch call validates.
BatchClasses ==
  IF call.fn = "validateCssSelector" THEN extractClassSelectors(selector)
  ELSE parseClassString(classString)

\* The number of members of classes that validateClassName finds invalid.
InvalidCount(classes, config) ==
  Cardinality({i \in DOMAIN classes :
                 ~validateClassName(classes[i], config).result.valid})

\* The results of a batch call that returned cover every class name of the
\* batch, the ones no grammar takes included.
CoversBatch ==
  CASE call.fn \in {"validateClassString", "validateCssSelector"} ->
         /\ Len(ret.results) = Len(BatchClasses)
         /\ \A i \in DOMAIN ret.results :
              /\ IsValidationResult(ret.results[i])
              /\ ReportedAsData(BatchClasses[i], call.config, ret.results[i])
    [] call.fn = "getInvalidClasses" ->
         /\ Len(ret.invalid) = InvalidCount(BatchClasses, call.config)
         /\ \A i \in DOMAIN ret.invalid :
              ReportedAsData(ret.invalid[i].className, call.config,
                             ret.invalid[i].result)

\* C6 as stated: for every token and every configuration validateClassName
\* returns a ValidationResult and never raises, a token no grammar takes is
\* reported as data, and the batch functions never abort.
C6_NeverRaises ==
  /\ call.fn = "validateClassName" =>
       /\ ~ret.threw
       /\ IsValidationResult(ret.result)
       /\ ReportedAsData(className, call.config, ret.result)
  /\ call.fn \in {"validateClassString", "validateCssSelector", "getInvalidClasses"} =>
       /\ ~ret.threw
       /\ CoversBatch

\* C6, amended: validateClassName and the batch functions raise only the
\* SyntaxError of a malformed custom utility source; with every custom source
\* well-formed they never raise, validateClassName returns a ValidationResult,
\* a token no grammar takes is reported as data, and a batch call returns
\* results that cover every token of the batch.
C6_RaisesOnlyOnMalformedSource ==
  /\ call.fn = "validateClassName" =>
       /\ ret.threw =>
            /\ HasMalformedSource(call.config.customUtilities)
            /\ ret.error = "SyntaxError"
       /\ ~ret.threw =>
            /\ IsValidationResult(ret.result)
            /\ ReportedAsData(className, call.config, ret.result)
  /\ call.fn \in {"validateClassString", "validateCssSelector", "getInvalidClasses"} =>
       /\ ret.threw =>
            /\ HasMalformedSource(call.config.customUtilities)
            /\ ret.error = "SyntaxError"
       /\ ~ret.threw => CoversBatch

\* A validateClassString call has returned the failure of a token no grammar
\* takes together with the result of the valid token after it.
C6_Witness ==
  /\ call.fn = "validateClassString"
  /\ ~HasMalformedSource(call.config.customUtilities)
  /\ ~ret.threw
  /\ Len(ret.results) = 2
  /\ ~ret.results[1].valid
  /\ ret.results[2].valid

-----------------------------------------------------------------------------
(* C7 *)

\* C7: when some entry of customUtilities is malformed, every getClassType and
\* validateClassName call with that configuration raises the compile error,
\* whatever the token and the position of the entry.
C7_MalformedSourceAlwaysRaises ==
  (call.fn \in {"getClassType", "validateClassName"}
     /\ HasMalformedSource(call.config.customUtilities)) => ret.threw

-----------------------------------------------------------------------------
(* C8 *)

\* The informational message of an allowed unknown class.
AllowedMessage(cn) == "Unknown class \"" \o cn \o "\" (allowed by config)"

\* C8: for a token that getClassType maps to null, validateClassName with
\* allowUnknown returns valid = true, kind null and the informational message
\* with none of the diagnostic suggestions in it; without allowUnknown it
\* returns valid = false.
C8_AllowUnknownPasses ==
  (call.fn = "validateClassName"
     /\ getClassType(className, call.config) = ReturnType(NULL)) =>
    IF call.config.allowUnknown
    THEN /\ ret = ReturnResult([valid |-> TRUE, type |-> NULL,
                          message |-> AllowedMessage(className)])
         /\ \A k \in DOMAIN Suggestions(className) :
              ~Includes(ret.result.message, Suggestions(className)[k])
         /\ ~Includes(ret.result.message, "does not match")
    ELSE /\ ~ret.threw
         /\ ret.result.valid = FALSE

\* An allowUnknown call on a token that would draw suggestions has passed it.
C8_Witness ==
  /\ call.fn = "validateClassName"
  /\ call.config.allowUnknown
  /\ getClassType(className, call.config) = ReturnType(NULL)
  /\ Suggestions(className) # <<>>
  /\ ~ret.threw
  /\ ret.result.valid
  /\ ret.result.type = NULL

-----------------------------------------------------------------------------
(* C9 *)

\* re matches the whole of s, from its first to its last character.
WholeMatch(re, s) == (Len(s) + 1) \in Ends(re, s, 1)

\* C9: a utility grammar, built-in or custom, accepts a token only if the
\* entire token fits it; a grammar that fits a proper substring only never
\* makes isUtilityClass true.
C9_WholeTokenOnly ==
  (call.fn = "isUtilityClass" /\ ret = ReturnBool(TRUE)) =>
    \/ \E k \in DOMAIN UTILITY_PATTERNS : WholeMatch(UTILITY_PATTERNS[k], className)
    \/ \E k \in DOMAIN call.customPatterns :
         LET pattern == NewRegExp(call.customPatterns[k])
         IN  ~pattern.threw /\ WholeMatch(pattern.regexp, className)

-----------------------------------------------------------------------------
(* C10 *)

\* cn is base -- segment with base a block, an element or a nested element and
\* segment a lowercase-hyphenated run.
IsModifierOfBase(cn) ==
  \E i \in 1..(Len(cn) - 1) :
    /\ SubSeq(cn, i, i + 1) = "--"
    /\ LET base == SubSeq(cn, 1, i - 1)
           segment == SubSeq(cn, i + 2, Len(cn))
       IN  /\ isBlock(base) \/ isElement(base) \/ isNestedElement(base)
           /\ isBlock(segment)

\* C10: isModifier holds exactly when the token is base -- segment, base
\* accepted by isBlock, isElement or isNestedElement and segment a
\* lowercase-hyphenated run.
C10_ModifierOfValidBase ==
  call.fn = "isModifier" => (ret.bool = IsModifierOfBase(className))


-----------------------------------------------------------------------------
(* C11 *)

\* C11: isStateClass holds exactly when the token is is or has, then one
\* uppercase letter, then zero or more letters and digits; no token with a
\* hyphen or an underscore is a state, and neither is the bare is or has.
C11_StateShapeExactly ==
  call.fn = "isStateClass" =>
    /\ ret.bool = IsStateShape(className)
    /\ (Includes(className, "-") \/ Includes(className, "_")) => ~ret.bool
    /\ className \in {"is", "has"} => ~ret.bool

\* isStateClass has accepted a state whose body is longer than the one
\* uppercase letter.
C11_Witness ==
  /\ call.fn = "isStateClass"
  /\ ret.bool
  /\ StartsWith(className, "has")
  /\ Len(className) > 4

-----------------------------------------------------------------------------
(* C12 *)

\* The n-th smallest member of a set of numbers.
NthSmallest(S, n) == CHOOSE x \in S : Cardinality({y \in S : y < x}) = n - 1

\* s[a..b] is a maximal run of characters that are not whitespace.
IsSegment(s, a, b) ==
  /\ a <= b
  /\ \A i \in a..b : SubSeq(s, i, i) \notin Whitespace
  /\ a = 1 \/ SubSeq(s, a - 1, a - 1) \in Whitespace
  /\ b = Len(s) \/ SubSeq(s, b + 1, b + 1) \in Whitespace

\* The maximal non-whitespace segments of s, from left to right.
Segments(s) ==
  LET starts == {a \in 1..Len(s) : \E b \in a..Len(s) : IsSegment(s, a, b)}
  IN  [n \in 1..Cardinality(starts) |->
         LET a == NthSmallest(starts, n)
         IN  SubSeq(s, a, CHOOSE b \in a..Len(s) : IsSegment(s, a, b))]

\* C12: parseClassString returns, in input order, exactly the maximal
\* non-whitespace segments of the text; no returned token is empty or holds
\* whitespace, and a text that is empty or all whitespace gives the empty
\* sequence.
C12_MaximalSegments ==
  call.fn = "parseClassString" =>
    /\ ret.names = Segments(classString)
    /\ \A i \in DOMAIN ret.names :
         /\ ret.names[i] # ""
         /\ \A w \in Whitespace : ~Includes(ret.names[i], w)
    /\ (\A i \in 1..Len(classString) : SubSeq(classString, i, i) \in Whitespace)
         => ret.names = <<>>

\* parseClassString has returned two tokens of a text that opens with
\* whitespace and separates them by a run of two spaces.
C12_Witness ==
  /\ call.fn = "parseClassString"
  /\ Len(ret.names) = 2
  /\ StartsWith(classString, " ")
  /\ Includes(classString, ret.names[1] \o "  " \o ret.names[2])

-----------------------------------------------------------------------------
(* C13 *)

IdentStart == Lower \cup Upper \cup {"_"}

IdentChar == IdentStart \cup Digit \cup {"-"}

\* The identifiers of the dot-prefixed identifier runs of s, from left to
\* right: a dot, a letter or underscore, then as many letters, digits,
\* underscores and hyphens as follow.
Identifiers(s) ==
  LET dots == {p \in 1..(Len(s) - 1) :
                 SubSeq(s, p, p) = "." /\ SubSeq(s, p + 1, p + 1) \in IdentStart}
  IN  [n \in 1..Cardinality(dots) |->
         LET p == NthSmallest(dots, n)
             e == CHOOSE e \in (p + 1)..Len(s) :
                    /\ \A i \in (p + 1)..e : SubSeq(s, i, i) \in IdentChar
                    /\ e = Len(s) \/ SubSeq(s, e + 1, e + 1) \notin IdentChar
         IN  SubSeq(s, p + 1, e)]

\* C13: extractClassSelectors returns, in order of appearance and with
\* duplicates kept, the identifier of every dot-prefixed identifier run of
\* the selector without its dot; pseudo-classes, id selectors and element
\* selectors add nothing, and a selector without a class selector gives the
\* empty sequence.
C13_DotPrefixedIdentifiers ==
  call.fn = "extractClassSelectors" =>
    /\ ret.names = Identifiers(selector)
    /\ ~Includes(selector, ".") => ret.names = <<>>

\* extractClassSelectors has returned the same identifier twice.
C13_Witness ==
  /\ call.fn = "extractClassSelectors"
  /\ Len(ret.names) = 2
  /\ ret.names[1] = ret.names[2]

-----------------------------------------------------------------------------
(* C14 *)

\* C14: a validateClassString call that returns gives one result per token
\* of parseClassString(text), in the order of the tokens, the i-th being what
\* validateClassName returns for the i-th token; validateCssSelector does the
\* same over the tokens of extractClassSelectors(selector).  The call raises
\* only when validateClassName raises for one of the tokens.
C14_OneResultPerToken ==
  call.fn \in {"validateClassString", "validateCssSelector"} =>
    /\ ~ret.threw =>
         /\ Len(ret.results) = Len(BatchClasses)
         /\ \A i \in DOMAIN ret.results :
              validateClassName(BatchClasses[i], call.config)
                = ReturnResult(ret.results[i])
    /\ ret.threw =>
         \E i \in DOMAIN BatchClasses :
           validateClassName(BatchClasses[i], call.config) = ret

\* validateCssSelector has returned a valid result followed by an invalid
\* one.
C14_Witness ==
  /\ call.fn = "validateCssSelector"
  /\ ~ret.threw
  /\ Len(ret.results) = 2
  /\ ret.results[1].valid
  /\ ~ret.results[2].valid

-----------------------------------------------------------------------------
(* C15 *)

\* The places of classes whose validateClassName result is invalid.
InvalidPlaces(classes, config) ==
  {i \in DOMAIN classes : ~validateClassName(classes[i], config).result.valid}

\* C15: a getInvalidClasses call that returns gives, in input order, exactly
\* the tokens of parseClassString(text) whose validateClassName result has
\* valid = false, each with that result, once per occurrence.
C15_ExactlyTheInvalid ==
  (call.fn = "getInvalidClasses" /\ ~ret.threw) =>
    LET classes == parseClassString(classString)
        places == InvalidPlaces(classes, call.config)
    IN  /\ Len(ret.invalid) = Cardinality(places)
        /\ \A k \in DOMAIN ret.invalid :
             ret.invalid[k] =
               [className |-> classes[NthSmallest(places, k)],
                result |-> validateClassName(classes[NthSmallest(places, k)],
                                             call.config).result]

\* getInvalidClasses has listed both occurrences of a repeated invalid token.
C15_Witness ==
  /\ call.fn = "getInvalidClasses"
  /\ ~ret.threw
  /\ Len(ret.invalid) = 2
  /\ ret.invalid[1].className = ret.invalid[2].className

-----------------------------------------------------------------------------
(* C16 *)

-----------------------------------------------------------------------------
(* C17 *)

\* The lengths of the maximal runs of underscores of cn.
UnderscoreRuns(cn) ==
  {b - a + 1 : <<a, b>> \in
     {<<a, b>> \in (1..Len(cn)) \X (1..Len(cn)) :
        /\ a <= b
        /\ \A i \in a..b : SubSeq(cn, i, i) = "_"
        /\ a = 1 \/ SubSeq(cn, a - 1, a - 1) # "_"
        /\ b = Len(cn) \/ SubSeq(cn, b + 1, b + 1) # "_"}}

\* A validateClassName call has returned the failure of the class name.
FailedClassification ==
  /\ call.fn = "validateClassName"
  /\ ~call.config.allowUnknown
  /\ ~ret.threw
  /\ ~ret.result.valid

SingleUnderscoreSuggestion(cn) ==
  "Use single underscore for first-level elements: \""
    \o Replace(cn, "__", "_") \o "\""

\* cn has a run of two underscores and no run of one.
DoubleButNoSingleUnderscore(cn) ==
  2 \in UnderscoreRuns(cn) /\ 1 \notin UnderscoreRuns(cn)

\* C17: for every token that fails classification and has a double-underscore
\* run but no single-underscore run, the message holds the suggestion to use a
\* single underscore, quoting the token with the double underscore collapsed.
C17_SingleUnderscoreSuggested ==
  (FailedClassification /\ DoubleButNoSingleUnderscore(className)) =>
    Includes(ret.result.message, SingleUnderscoreSuggestion(className))

-----------------------------------------------------------------------------
(* C18 *)

\* The token with what follows the prefix upper-cased in its first character.
CamelCased(prefix, cn) ==
  prefix \o ToUpperCase(CharAt0(Slice(cn, Len(prefix))))
         \o Slice(cn, Len(prefix) + 1)

CamelCaseOpening == "State classes should use camelCase: \""

CamelCaseSuggestion(prefix, cn) ==
  CamelCaseOpening \o CamelCased(prefix, cn) \o "\""

\* cn starts with the prefix and goes on with something that is not an
\* uppercase letter.
LacksUppercaseAfter(prefix, cn) ==
  /\ StartsWith(cn, prefix)
  /\ CharAt0(Slice(cn, Len(prefix))) \notin Upper

\* C18: for every token that fails classification, starts with is (has) and
\* goes on with something that is not an uppercase letter, the message
\* suggests the prefix followed by the rest with its first character
\* upper-cased, and the suggested name satisfies the state grammar.
C18_CamelCaseStateSuggested ==
  FailedClassification =>
    \A prefix \in {"is", "has"} :
      LacksUppercaseAfter(prefix, className) =>
        /\ Includes(ret.result.message, CamelCaseSuggestion(prefix, className))
        /\ IsStateShape(CamelCased(prefix, className))

-----------------------------------------------------------------------------
(* C19 *)

LowercaseFlag == "HCNC classes (except states) should be lowercase"

NestingFlag == "Maximum nesting is 2 levels (use __ for nested elements)"

\* cn has an uppercase letter.
HasUppercase(cn) == \E i \in 1..Len(cn) : SubSeq(cn, i, i) \in Upper

\* cn has three or more underscores in a row.
HasTripleUnderscore(cn) == \E n \in UnderscoreRuns(cn) : n >= 3

\* C19: for every token that fails classification, the message holds every
\* suggestion whose shape condition holds and none whose condition does not:
\* the single-underscore suggestion, the camelCase suggestions, the lowercase
\* flag iff the token has an uppercase letter, and the nesting flag iff the
\* token has three or more underscores in a row.
C19_AllAndOnlyApplicable ==
  FailedClassification =>
    /\ Includes(ret.result.message, SingleUnderscoreSuggestion(className))
         <=> DoubleButNoSingleUnderscore(className)
    /\ \A prefix \in {"is", "has"} :
         Includes(ret.result.message, CamelCaseOpening \o prefix)
           <=> LacksUppercaseAfter(prefix, className)
    /\ Includes(ret.result.message, LowercaseFlag) <=> HasUppercase(className)
    /\ Includes(ret.result.message, NestingFlag) <=> HasTripleUnderscore(className)

-----------------------------------------------------------------------------
(* C20 *)

\* head is an optional . or # and an identifier, or an & and identifier
\* characters.
IsSimpleSelector(head) ==
  /\ Len(head) > 0
  /\ \/ /\ CharAt0(head) = "&"
        /\ \A i \in 2..Len(head) : SubSeq(head, i, i) \in IdentChar
     \/ /\ CharAt0(head) \in {".", "#"}
        /\ Len(head) > 1
        /\ SubSeq(head, 2, 2) \in IdentStart
        /\ \A i \in 3..Len(head) : SubSeq(head, i, i) \in IdentChar
     \/ /\ CharAt0(head) \in IdentStart
        /\ \A i \in 2..Len(head) : SubSeq(head, i, i) \in IdentChar

\* What stands before the open brace that ends the line t.
BeforeBrace(t) == Trim(SubSeq(t, 1, Len(t) - 1))

\* Every line that opens a block is a simple selector and an open brace, and
\* every closing brace stands on a line of its own.
IsSimpleScss(text) ==
  \A line \in {Trim(l) : l \in {Split(text, "\n", 1, 1)[i] :
                                 i \in DOMAIN Split(text, "\n", 1, 1)}} :
    /\ Includes(line, "{") =>
         /\ SubSeq(line, Len(line), Len(line)) = "{"
         /\ IsSimpleSelector(BeforeBrace(line))
    /\ Includes(line, "}") => line = "}"

\* The selector of a block that opens inside the blocks open: a leading & is
\* replaced by the selector of the innermost of them.
InsideOpen(open, sel) ==
  IF CharAt0(sel) = "&"
  THEN (IF open = <<>> THEN "" ELSE open[Len(open)]) \o SubSeq(sel, 2, Len(sel))
  ELSE sel

RECURSIVE DottedSelectors(_, _, _, _)
\* The dot-stripped resolved selectors of the blocks that the lines from the
\* i-th on open, after out; open holds the resolved selectors of the blocks
\* opened and not yet closed.
DottedSelectors(lines, i, open, out) ==
  IF i > Len(lines) THEN out
  ELSE IF Includes(lines[i], "{")
       THEN DottedSelectors(lines, i + 1,
              Append(open, InsideOpen(open, BeforeBrace(Trim(lines[i])))),
              IF CharAt0(InsideOpen(open, BeforeBrace(Trim(lines[i])))) = "."
              THEN Append(out, Tail(InsideOpen(open, BeforeBrace(Trim(lines[i])))))
              ELSE out)
  ELSE IF Includes(lines[i], "}")
       THEN DottedSelectors(lines, i + 1,
              IF open = <<>> THEN open ELSE SubSeq(open, 1, Len(open) - 1), out)
  ELSE DottedSelectors(lines, i + 1, open, out)

-----------------------------------------------------------------------------
(* C21: hcnc init                                                          *)

\* biome.json parses and its plugins array holds both HCNC paths.
HasBothPlugins(file) ==
  /\ file.exists
  /\ file.form # "malformed"
  /\ file.value.pluginsKind = "array"
  /\ \A k \in DOMAIN HCNC_PLUGINS : ArrayIncludes(file.value.plugins, HCNC_PLUGINS[k])

\* There is no biome.json, or it parses and its plugins is missing or an array.
Updatable(file) ==
  \/ ~file.exists
  \/ file.form # "malformed" /\ file.value.pluginsKind \in {"missing", "array"}

CountOf(arr, x) == Cardinality({i \in DOMAIN arr : arr[i] = x})

\* Every field and every plugins entry of found is in after, in place, and
\* each HCNC path found is there as many times as before, each one not
\* found once.
Preserves(found, after) ==
  /\ after.value.fields = found.value.fields
  /\ Len(after.value.plugins) >= Len(found.value.plugins)
  /\ SubSeq(after.value.plugins, 1, Len(found.value.plugins)) = found.value.plugins
  /\ \A k \in DOMAIN HCNC_PLUGINS :
       CountOf(after.value.plugins, HCNC_PLUGINS[k])
         = IF CountOf(found.value.plugins, HCNC_PLUGINS[k]) = 0 THEN 1
           ELSE CountOf(found.value.plugins, HCNC_PLUGINS[k])

\* A run that found both paths leaves the file as it is and does not write.
AddsNothing ==
  HasBothPlugins(call.found) => biome = call.found /\ ~ret.wrote

-----------------------------------------------------------------------------
(* C22: hcnc check                                                         *)

RECURSIVE WalkedFiles(_, _)
\* The supported files that a walk of dir reaches when nothing fails: those
\* of the directory and of its directories, but for the ones whose name
\* opens with a dot or is node_modules.
WalkedFiles(dir, entries) ==
  UNION {IF entries[i].kind = "file"
            /\ ToLowerCase(ExtName(entries[i].name)) \in SUPPORTED_EXTENSIONS
         THEN {[path |-> PathJoin(dir, entries[i].name), entry |-> entries[i]]}
         ELSE IF entries[i].kind = "directory"
                 /\ ~StartsWith(entries[i].name, ".")
                 /\ entries[i].name # "node_modules"
              THEN WalkedFiles(PathJoin(dir, entries[i].name), entries[i].entries)
         ELSE {} : i \in DOMAIN entries}

\* The invalid tokens of a file.
InvalidTokens(entry) ==
  LET classes == extractClassesFromFile(entry.content, ToLowerCase(ExtName(entry.name)))
  IN  {classes[k] : k \in {j \in DOMAIN classes :
                             ~validateClassName(classes[j], NoConfig).result.valid}}

\* The report covers the invalid tokens of the file.
Covered(file) ==
  \A cls \in InvalidTokens(file.entry) :
    \E k \in DOMAIN ret.report :
      ret.report[k].file = file.path /\ ret.report[k].className = cls

\* Every I/O failure of the walk is on a file: each directory can be listed.
RECURSIVE OnlyFilesFail(_)
OnlyFilesFail(entries) ==
  \A i \in DOMAIN entries :
    entries[i].fails # "readdir" /\ OnlyFilesFail(entries[i].entries)

\* C22 as stated: in a directory check where I/O fails on files only, the
\* batch is not aborted, and the report covers the invalid tokens of every
\* supported file of the walk on which no I/O fails, in the same and in
\* other directories.
C22_FailureDoesNotAbort ==
  call.fn = "checkDirectory" /\ OnlyFilesFail(tree) =>
    /\ ~ret.threw
    /\ \A file \in WalkedFiles("src", tree) :
         file.entry.fails = "none" => Covered(file)

-----------------------------------------------------------------------------
(* C23: the BEM-family predicates                                          *)

BemKinds == {"block", "element", "nested-element", "modifier", "state"}

\* The kind that each predicate stands for.
BemPredicates ==
  [isBlock |-> "block", isElement |-> "element", isNestedElement |-> "nested-element",
   isModifier |-> "modifier", isStateClass |-> "state"]

\* The kinds whose predicate holds of cn.
BemKindsOf(cn) == {kind \in BemKinds : Satisfies(kind, cn, <<>>)}

\* C23: at most one of isBlock, isElement, isNestedElement, isModifier and
\* isStateClass holds of a token: the one that has returned true is the only
\* one that holds, and when getClassType returns one of their kinds, then
\* that predicate is the only one of the five that holds, so that no order
\* of the five checks returns another.
C23_BemPredicatesDisjoint ==
  holds = "className" =>
    /\ Cardinality(BemKindsOf(className)) <= 1
    /\ call.fn \in DOMAIN BemPredicates /\ ret.bool =>
         BemKindsOf(className) = {BemPredicates[call.fn]}
    /\ call.fn = "getClassType" /\ ~ret.threw /\ ret.type \in BemKinds =>
         BemKindsOf(className) = {ret.type}

\* getClassType has returned modifier for a token that opens as an element.
C23_Witness ==
  /\ call.fn = "getClassType"
  /\ className = "card_a--x"
  /\ ~ret.threw
  /\ ret.type = "modifier"
  /\ BemKindsOf(className) = {"modifier"}

-----------------------------------------------------------------------------
(* C24: the selector stack of expandScssNesting                            *)

\* How many times the character c stands in s.
Occurrences(s, c) == Cardinality({i \in 1..Len(s) : SubSeq(s, i, i) = c})

\* The open-brace lines minus the close-brace lines among the first n.
Depth(lines, n) ==
  Cardinality({i \in 1..n : Includes(lines[i], "{")})
    - Cardinality({i \in 1..n : Includes(lines[i], "}")})

\* At most one brace on each line, no block closed that was not opened, and
\* every block closed at the end.
IsBalanced(lines) ==
  /\ \A i \in DOMAIN lines :
       Occurrences(lines[i], "{") + Occurrences(lines[i], "}") <= 1
  /\ \A n \in 0..Len(lines) : Depth(lines, n) >= 0
  /\ Depth(lines, Len(lines)) = 0

\* The stack of expandScssNesting after the first n lines.
StackAfter(lines, n) ==
  ScssLines(SubSeq(lines, 1, n), 1, [expanded |-> <<>>, stack |-> <<>>]).stack

RECURSIVE OpenBlocks(_, _, _, _)
\* The selectors, a leading & resolved against the innermost, of the blocks
\* that the lines from the i-th to the n-th leave open, inside the blocks
\* open.
OpenBlocks(lines, i, n, open) ==
  IF i > n THEN open
  ELSE IF Includes(lines[i], "{")
       THEN OpenBlocks(lines, i + 1, n,
                       Append(open, InsideOpen(open, BeforeBrace(Trim(lines[i])))))
  ELSE IF Includes(lines[i], "}")
       THEN OpenBlocks(lines, i + 1, n, SubSeq(open, 1, Len(open) - 1))
  ELSE OpenBlocks(lines, i + 1, n, open)

\* After the first n lines the stack is as deep as there are blocks open and
\* holds their selectors.
StackIsOpenBlocks(lines, n) ==
  /\ Len(StackAfter(lines, n)) = Depth(lines, n)
  /\ StackAfter(lines, n) = OpenBlocks(lines, 1, n, <<>>)

\* C24 as stated: for brace-balanced SCSS text with at most one brace on a
\* line, after any prefix of the lines the stack of expandScssNesting holds
\* exactly the selectors of the blocks opened and not yet closed, as many as
\* open-brace lines minus close-brace lines, and it is empty after the last
\* line.
C24_StackIsOpenBlocks ==
  (call.fn = "expandScssNesting" /\ IsBalanced(Split(scss, "\n", 1, 1))) =>
    /\ \A n \in 0..Len(Split(scss, "\n", 1, 1)) :
         StackIsOpenBlocks(Split(scss, "\n", 1, 1), n)
    /\ StackAfter(Split(scss, "\n", 1, 1), Len(Split(scss, "\n", 1, 1))) = <<>>

====
